---- MODULE Spec2Model ----
(***************************************************************************)
(* Model of the MLS scraper: the result harvesting engine                  *)
(* (Navigator.extract_mortgage_history_from_results), the resilient        *)
(* locator (_find_element_with_fallback of Navigator and LoginHandler),    *)
(* the session manager (SessionManager.create_driver and close), the       *)
(* login (LoginHandler.login), the search form                             *)
(* (Navigator.configure_search_filters), the top-level operation           *)
(* (login_and_navigate), the serving event loop, parse_amount, the         *)
(* transform to the webhook format, the extraction of one detail page      *)
(* (Navigator._extract_mortgage_history) and the external-resource step    *)
(* (Navigator.click_matrix_anchor).                                        *)
(***************************************************************************)
EXTENDS Integers, Sequences, FiniteSets, TLC

\* ------------------------------------------------------------------ bounds
NumKeys == 2          \* distinct ML numbers a result page can show
NumHandles == 2       \* distinct ikey values a detail link can carry
MaxIdents == 2        \* cap on the length of all_ml_info
MaxPages == 2         \* cap on page_number
MaxRows == 2          \* rows with a dollar link on one result page
MaxStrategies == 4    \* longest Strategy List handed to the locator
MaxCalls == 3         \* create_driver and close calls made on one SessionManager
MaxDirLen == 3        \* longest street_direction string of a request
MaxPolls == 2         \* polls of the post-login wait before it times out

\* ------------------------------------------------------- values and helpers
MlNumbers == 1..NumKeys
Ikeys == 1..NumHandles
NoMatch == 0                          \* ikey = None / ml_number = None

Anchor == <<"results", NoMatch>>      \* handle of the results window
Tab(i) == <<"tab", i>>                \* handle of the tab the i-th click opens
Tabs == {Tab(i) : i \in 1..MaxIdents}
NoWindow == <<"unset", NoMatch>>      \* results_window before line 955

None == [present |-> FALSE, src |-> NoWindow]
MortgageData(w) == [present |-> TRUE, src |-> w]

DictSet(d, k, v) == [x \in (DOMAIN d) \cup {k} |-> IF x = k THEN v ELSE d[x]]
EmptyDict == [x \in {} |-> None]

MlInfo(ml, ik) == [ml_number |-> ml, ikey |-> ik]
CollectedKeys(info) == {info[i].ml_number : i \in 1..Len(info)}

\* a row of the result table, as the collection scan sees it
Rows ==
  [link : BOOLEAN, ikey : Ikeys \cup {NoMatch}, m8 : MlNumbers \cup {NoMatch},
   wide : BOOLEAN, col4 : MlNumbers \cup {NoMatch}, raises : BOOLEAN]

RowIkey(row) == row.ikey

RowMlNumber(row) ==
  IF row.m8 # NoMatch THEN row.m8
  ELSE IF row.wide THEN row.col4
  ELSE NoMatch

AlreadyCollectedByKey(info, ml, ik) ==
  \E i \in 1..Len(info) : info[i].ml_number = ml

AlreadyCollected(info, ml, ik) ==
  \E i \in 1..Len(info) : info[i].ml_number = ml /\ info[i].ikey = ik

CollectRowKeyless(info, row) ==
  IF ~row.link \/ row.raises THEN info
  ELSE IF RowMlNumber(row) = NoMatch THEN info
  ELSE IF AlreadyCollected(info, RowMlNumber(row), RowIkey(row)) THEN info
  ELSE Append(info, MlInfo(RowMlNumber(row), RowIkey(row)))

CollectRow(info, row) ==
  IF ~row.link \/ row.raises THEN info
  ELSE IF RowIkey(row) = NoMatch THEN info
  ELSE IF RowMlNumber(row) = NoMatch THEN info
  ELSE IF AlreadyCollected(info, RowMlNumber(row), RowIkey(row)) THEN info
  ELSE Append(info, MlInfo(RowMlNumber(row), RowIkey(row)))

\* what the scan made of a row: the pair it read, or why it went on
NoRow == [ml_number |-> NoMatch, ikey |-> NoMatch, skipped |-> "unscanned"]

Scanned(row) ==
  IF ~row.link THEN [NoRow EXCEPT !.skipped = "no_link"]
  ELSE IF row.raises THEN [NoRow EXCEPT !.skipped = "raised"]
  ELSE IF RowIkey(row) = NoMatch THEN [NoRow EXCEPT !.skipped = "no_ikey"]
  ELSE IF RowMlNumber(row) = NoMatch THEN [NoRow EXCEPT !.skipped = "no_ml_number"]
  ELSE [ml_number |-> RowMlNumber(row), ikey |-> RowIkey(row), skipped |-> "no"]

InitAbsentForgotten(d, info) == d

InitAbsent(d, info) ==
  [k \in (DOMAIN d) \cup CollectedKeys(info) |->
     IF k \in CollectedKeys(info) THEN None ELSE d[k]]

BackFillForgotten(d, info) == d

BackFill(d, info) ==
  [k \in (DOMAIN d) \cup CollectedKeys(info) |->
     IF k \in DOMAIN d THEN d[k] ELSE None]

\* ------------------------------------------------------------------- state
VARIABLES
  phase,           \* "COLLECTING" | "HARVESTING" | "DONE"
  pc,              \* position inside extract_mortgage_history_from_results
  page_number,
  rows_left,       \* rows of the current page still to scan
  all_ml_info,
  all_data,
  results_window,
  idx,             \* enumerate index of the HARVESTING loop
  windows_before,
  new_windows,
  windows,         \* driver.window_handles
  focus,           \* driver.current_window_handle
  pending,         \* tabs a click has requested and the browser has not opened yet
  status,          \* how the call ended: "running" | "returned" | "raised"
  click_log,       \* indices whose detail link was clicked, in order
  entered,         \* tabs the driver was switched to
  outcome,         \* per index, how its iteration ended
  fault,           \* where the outer handler (line 1119) caught an exception
  scanned,         \* the row the scan of lines 831-923 has just been through
  \* the resilient locator
  loc_owner,       \* "Navigator" | "LoginHandler" | "idle"
  selectors,       \* the Strategy List, each strategy as the page answers it
  loc_i,           \* position of the for loop in selectors
  attempts,        \* positions handed to wait.until, in order
  loc_result,      \* what the call produced
  \* the session manager
  sess_pc,         \* position inside create_driver, "idle" between calls
  service,         \* "None" | "wdm" | "system"
  retry_count,
  driver,          \* the local variable of create_driver
  self_driver,
  self_wait,       \* the driver the WebDriverWait was built on
  started,         \* browsers webdriver.Chrome has started
  quit_called,     \* browsers whose quit() was called
  quit_failed,     \* browsers whose quit() raised
  last_call,       \* the last call made on the manager and how it ended
  calls,           \* calls made so far
  \* configure_search_filters
  cfg_pc,          \* position inside configure_search_filters
  street_direction,
  direction_value,
  checked,         \* the page: which status checkboxes are selected
  checked0,        \* the page as it was when the call began
  clicks,          \* per status checkbox, how often click() was called
  processed,       \* status checkboxes whose step is over
  touched,         \* steps that made a driver call
  selected,        \* the page: value selected in each dropdown
  swallowed,       \* optional steps whose exception was swallowed
  failed_at,       \* the step whose exception ended the call, and its kind
  results_clicked,
  cfg_result,
  \* LoginHandler.login
  login_pc,        \* position inside login
  page,            \* what the site shows: URL on the login path, marker, errors
  polls,           \* polls the wait of line 164 has made
  submitted,       \* the login button was clicked
  seen_off_login,  \* a poll read a URL off the login path
  seen_marker,     \* a poll found a post-login marker
  timed_out,       \* the wait of line 164 raised TimeoutException
  url_after,       \* current_url_after of line 175
  error_seen,      \* error_elements[0].text of line 188, if any
  driver_fault,    \* a driver call raised something the code does not expect
  login_result,
  \* login_and_navigate
  run_pc,          \* position inside login_and_navigate
  webhook_url,     \* search_filters.webhook_url or WEBHOOK_URL
  credentials,     \* LOGIN_USERNAME and LOGIN_PASSWORD are both set
  session_manager, \* the local variable: "None" | "bound"
  pending_exc,     \* the exception on its way to the handlers of line 153
  fatal,           \* the exception that ended the workflow, if any
  steps_done,      \* steps the run has started, in order
  deliveries,      \* send_webhook calls, in order
  response,        \* what the caller gets
  \* the event loop serving login_and_navigate
  req_pc,          \* per request, the position of its coroutine
  req_creds,       \* per request, whether the credentials are configured
  req_exc,         \* per request, the exception its workflow raised, if any
  live,            \* requests whose browser session is open
  loop_owner,      \* the request whose coroutine is running, or NoOwner
  \* parse_amount
  amount_str,      \* the argument of the call
  amount_out,      \* what the call produced, AmountPending before it is made
  \* transform_mortgage_data_to_webhook_format
  xf_pc,           \* position inside the function
  xf_key,          \* position of the loop over mortgage_data.items()
  xf_len,          \* max_len of the key at hand
  xf_i,            \* position of the loop over range(max_len)
  xf_event,        \* the texts at index i of the three lists
  xf_record,       \* the record the last iteration appended, if any
  \* _extract_mortgage_history on one detail page
  ext_pc,          \* position inside the function
  tried,           \* the table selectors handed to a wait, in order
  mortgage_table,  \* the selector that produced the table, "None" before
  mortgage_dates,
  mortgage_amounts,
  mortgage_lenders,
  ext_result,      \* what the call produced
  \* click_matrix_anchor
  mx_pc,           \* position inside the function
  window_handles,  \* driver.window_handles, in the order the windows opened
  handles_at_click,\* driver.window_handles when the anchor was clicked
  mx_focus,        \* driver.current_window_handle
  opening,         \* the click asked for a tab the browser has not opened yet
  switched,        \* line 227 was executed
  continue_button, \* "unset" | "found" | "absent"
  continue_clicks, \* clicks the browser got on the continue control
  mx_result        \* what the call produced

engineVars ==
  <<phase, pc, page_number, rows_left, all_ml_info, all_data, results_window,
    idx, windows_before, new_windows, windows, focus, pending, status,
    click_log, entered, outcome, fault, scanned>>

locVars == <<loc_owner, selectors, loc_i, attempts, loc_result>>

sessVars ==
  <<sess_pc, service, retry_count, driver, self_driver, self_wait, started,
    quit_called, quit_failed, last_call, calls>>

filterVars ==
  <<cfg_pc, street_direction, direction_value, checked, checked0, clicks,
    processed, touched, selected, swallowed, failed_at, results_clicked,
    cfg_result>>

loginVars ==
  <<login_pc, page, polls, submitted, seen_off_login, seen_marker, timed_out,
    url_after, error_seen, driver_fault, login_result>>

runVars ==
  <<run_pc, webhook_url, credentials, session_manager, pending_exc, fatal,
    steps_done, deliveries, response>>

loopVars == <<req_pc, req_creds, req_exc, live, loop_owner>>

amountVars == <<amount_str, amount_out>>

xformVars == <<xf_pc, xf_key, xf_len, xf_i, xf_event, xf_record>>

\* the groups added to the model after the five above
extractVars ==
  <<ext_pc, tried, mortgage_table, mortgage_dates, mortgage_amounts,
    mortgage_lenders, ext_result>>

matrixVars ==
  <<mx_pc, window_handles, handles_at_click, mx_focus, opening, switched,
    continue_button, continue_clicks, mx_result>>

pageVars == <<extractVars, matrixVars>>

moreVars == <<loopVars, amountVars, xformVars, pageVars>>

outsideMore ==
  <<engineVars, locVars, sessVars, filterVars, loginVars, runVars>>

outsideLoop == <<outsideMore, amountVars, xformVars, pageVars>>

outsideAmount == <<outsideMore, loopVars, xformVars, pageVars>>

outsideTransform == <<outsideMore, loopVars, amountVars, pageVars>>

outsideExtract ==
  <<outsideMore, loopVars, amountVars, xformVars, matrixVars>>

outsideMatrix ==
  <<outsideMore, loopVars, amountVars, xformVars, extractVars>>

restVars == <<sessVars, filterVars, loginVars, runVars, moreVars>>

outsideSession ==
  <<engineVars, locVars, filterVars, loginVars, runVars, moreVars>>

outsideFilters ==
  <<engineVars, locVars, sessVars, loginVars, runVars, moreVars>>

outsideLogin ==
  <<engineVars, locVars, sessVars, filterVars, runVars, moreVars>>

outsideRun == <<engineVars, locVars, filterVars, loginVars, moreVars>>

vars == <<engineVars, locVars, restVars>>

EngineInit ==
  /\ phase = "COLLECTING"
  /\ pc = "find_links"
  /\ page_number = 1
  /\ rows_left = 0
  /\ all_ml_info = <<>>
  /\ all_data = EmptyDict
  /\ results_window = NoWindow
  /\ idx = 0
  /\ windows_before = {}
  /\ new_windows = {}
  /\ windows = {Anchor}
  /\ focus = Anchor
  /\ pending = {}
  /\ status = "running"
  /\ click_log = <<>>
  /\ entered = {}
  /\ outcome = [i \in 1..MaxIdents |-> "none"]
  /\ fault = "none"
  /\ scanned = NoRow

\* ------------------------------------------------- the session manager idle
NoDriver == <<"None", NoMatch>>       \* self.driver = None / self.wait = None
Chrome(i) == <<"chrome", i>>          \* the i-th browser webdriver.Chrome starts
Call(op, result, quit) == [op |-> op, result |-> result, quit |-> quit]
NoCall == Call("none", "returned", "none")

\* SessionManager.__init__: no driver, no wait
SessIdle ==
  /\ sess_pc = "idle"
  /\ service = "None"
  /\ retry_count = 0
  /\ driver = NoDriver
  /\ self_driver = NoDriver
  /\ self_wait = NoDriver
  /\ started = {}
  /\ quit_called = {}
  /\ quit_failed = {}
  /\ last_call = NoCall
  /\ calls = 0

\* ----------------------------------------------- the search form, not in use
Omitted == [given |-> FALSE, text |-> <<>>]      \* street_direction = None
Given(t) == [given |-> TRUE, text |-> t]

StatusCheckboxes == {"active", "coming_soon", "active_with_contract", "closed"}
Dropdowns == {"street_direction", "type_of_property", "financing"}

NoFailure == [step |-> "none", exc |-> "none"]
Failure(step, exc) == [step |-> step, exc |-> exc]

Running == [kind |-> "none", message |-> "none"]
Raised(kind, message) == [kind |-> kind, message |-> message]
Returned(url) == [kind |-> "url", message |-> url]

FiltersIdleWith(direction) ==
  /\ cfg_pc = "idle"
  /\ street_direction = direction
  /\ direction_value = "unset"
  /\ checked = [c \in StatusCheckboxes |-> FALSE]
  /\ checked0 = [c \in StatusCheckboxes |-> FALSE]
  /\ clicks = [c \in StatusCheckboxes |-> 0]
  /\ processed = {}
  /\ touched = {}
  /\ selected = [d \in Dropdowns |-> "unset"]
  /\ swallowed = {}
  /\ failed_at = NoFailure
  /\ results_clicked = FALSE
  /\ cfg_result = Running

FiltersIdle == FiltersIdleWith(Omitted)

\* ------------------------------------------------------- login, not in use
\* the login form: URL on the login path, no marker, no error element
LoginPage == [on_login |-> TRUE, marker |-> FALSE, errors |-> <<>>]

NoOutcome == [kind |-> "none", message |-> <<>>]

LoginIdleAt(at) ==
  /\ login_pc = at
  /\ page = LoginPage
  /\ polls = 0
  /\ submitted = FALSE
  /\ seen_off_login = FALSE
  /\ seen_marker = FALSE
  /\ timed_out = FALSE
  /\ url_after = "unread"
  /\ error_seen = <<>>
  /\ driver_fault = FALSE
  /\ login_result = NoOutcome

LoginIdle == LoginIdleAt("idle")

\* ------------------------------------------- the top-level run, not started
NoResponse == [kind |-> "none", success |-> FALSE, status |-> "none"]

RunIdleAt(at) ==
  /\ run_pc = at
  /\ session_manager = "None"
  /\ pending_exc = "none"
  /\ fatal = "none"
  /\ steps_done = <<>>
  /\ deliveries = <<>>
  /\ response = NoResponse

RunIdle ==
  /\ RunIdleAt("idle")
  /\ webhook_url = "None"
  /\ credentials = FALSE

\* the event loop with every request still to be dispatched
NumRequests == 2
Requests == 1..NumRequests
NoOwner == 0

LoopIdleWith(creds) ==
  /\ req_pc = [r \in Requests |-> "arrived"]
  /\ req_creds = creds
  /\ req_exc = [r \in Requests |-> "none"]
  /\ live = {}
  /\ loop_owner = NoOwner

LoopIdle == LoopIdleWith([r \in Requests |-> TRUE])

AmountPending == [raised |-> "pending", value |-> 0]

\* no call of parse_amount at hand
AmountIdle ==
  /\ amount_str = Omitted
  /\ amount_out = AmountPending

NoEvent ==
  [date |-> [kind |-> "none", sep |-> "", a |-> 0, b |-> 0, c |-> 0],
   amount |-> Omitted, lender |-> Omitted]

NoRecord ==
  [unit |-> NoMatch, close_date |-> [y |-> 0, m |-> 0, d |-> 0],
   mortgage_amount |-> 0, lender_name |-> Omitted]

\* no call of the transform at hand
TransformIdleAt(at) ==
  /\ xf_pc = at
  /\ xf_key = 0
  /\ xf_len = 0
  /\ xf_i = 0
  /\ xf_event = NoEvent
  /\ xf_record = NoRecord

TransformIdle == TransformIdleAt("idle")

\* the window the session starts with, showing the portal's dashboard
FirstWindow == "portal"

NoHistory ==
  [kind |-> "pending", present |-> FALSE, mortgage_dates |-> <<>>,
   mortgage_amounts |-> <<>>, mortgage_lenders |-> <<>>]

ExtractIdleAt(at) ==
  /\ ext_pc = at
  /\ tried = <<>>
  /\ mortgage_table = "None"
  /\ mortgage_dates = <<>>
  /\ mortgage_amounts = <<>>
  /\ mortgage_lenders = <<>>
  /\ ext_result = NoHistory

ExtractIdle == ExtractIdleAt("idle")

MatrixIdleAt(at) ==
  /\ mx_pc = at
  /\ window_handles = <<FirstWindow>>
  /\ handles_at_click = <<>>
  /\ mx_focus = FirstWindow
  /\ opening = FALSE
  /\ switched = FALSE
  /\ continue_button = "unset"
  /\ continue_clicks = 0
  /\ mx_result = Running

MatrixIdle == MatrixIdleAt("idle")

PageIdle == ExtractIdle /\ MatrixIdle

MoreIdle == LoopIdle /\ AmountIdle /\ TransformIdle /\ PageIdle

RestIdle == SessIdle /\ FiltersIdle /\ LoginIdle /\ RunIdle /\ MoreIdle

\* ------------------------------------------------------ the outer handler
\* lines 1119-1126: back-fill and return whatever was collected
OuterHandler(where) ==
  /\ all_data' = BackFill(all_data, all_ml_info)
  /\ fault' = where
  /\ phase' = "DONE"
  /\ pc' = "done"
  /\ status' = "returned"

\* ------------------------------------------------------------- COLLECTING
\* lines 809-829: the two find_elements calls of one page
FindLinks ==
  /\ pc = "find_links"
  /\ focus \in windows
  /\ \E n \in 0..MaxRows :
       /\ rows_left' = n
       /\ pc' = "scan_rows"
  /\ UNCHANGED <<locVars, restVars, scanned>>
  /\ UNCHANGED <<phase, page_number, all_ml_info, all_data, results_window, idx,
                 windows_before, new_windows, windows, focus, pending, status,
                 click_log, entered, outcome, fault>>

\* lines 813-815: no dollar link on the page ends the collection loop
NoLinksOnPage ==
  /\ pc = "find_links"
  /\ focus \in windows
  /\ pc' = "collected"
  /\ UNCHANGED <<locVars, restVars, scanned>>
  /\ UNCHANGED <<phase, page_number, rows_left, all_ml_info, all_data,
                 results_window, idx, windows_before, new_windows, windows,
                 focus, pending, status, click_log, entered, outcome, fault>>

\* a find_elements call of lines 811/825 raises: caught at line 1119
CollectRaises ==
  /\ pc = "find_links"
  /\ OuterHandler("collecting")
  /\ UNCHANGED <<locVars, restVars, scanned>>
  /\ UNCHANGED <<page_number, rows_left, all_ml_info, results_window, idx,
                 windows_before, new_windows, windows, focus, pending,
                 click_log, entered, outcome>>

\* lines 831-923: one row of the page
ScanRow ==
  /\ pc = "scan_rows"
  /\ rows_left > 0
  /\ \E row \in Rows :
       /\ focus \notin windows => row.raises
       /\ Len(CollectRow(all_ml_info, row)) <= MaxIdents
       /\ all_ml_info' = CollectRow(all_ml_info, row)
       /\ scanned' = Scanned(row)
  /\ rows_left' = rows_left - 1
  /\ UNCHANGED <<locVars, restVars>>
  /\ UNCHANGED <<phase, pc, page_number, all_data, results_window, idx,
                 windows_before, new_windows, windows, focus, pending, status,
                 click_log, entered, outcome, fault>>

\* lines 925-937: an enabled Next control is clicked
NextPage ==
  /\ pc = "scan_rows"
  /\ rows_left = 0
  /\ focus \in windows
  /\ page_number < MaxPages
  /\ page_number' = page_number + 1
  /\ pc' = "find_links"
  /\ scanned' = NoRow
  /\ UNCHANGED <<locVars, restVars>>
  /\ UNCHANGED <<phase, rows_left, all_ml_info, all_data, results_window, idx,
                 windows_before, new_windows, windows, focus, pending, status,
                 click_log, entered, outcome, fault>>

\* lines 938-941: no Next control, a disabled one, or an exception
LastPage ==
  /\ pc = "scan_rows"
  /\ rows_left = 0
  /\ pc' = "collected"
  /\ scanned' = NoRow
  /\ UNCHANGED <<locVars, restVars>>
  /\ UNCHANGED <<phase, page_number, rows_left, all_ml_info, all_data,
                 results_window, idx, windows_before, new_windows, windows,
                 focus, pending, status, click_log, entered, outcome, fault>>

\* lines 945-947: nothing collected, the empty dict is returned
ReturnEmpty ==
  /\ pc = "collected"
  /\ all_ml_info = <<>>
  /\ phase' = "DONE"
  /\ pc' = "done"
  /\ status' = "returned"
  /\ UNCHANGED <<locVars, restVars, scanned>>
  /\ UNCHANGED <<page_number, rows_left, all_ml_info, all_data, results_window,
                 idx, windows_before, new_windows, windows, focus, pending,
                 click_log, entered, outcome, fault>>

\* lines 949-951: every collected key starts as None
StartHarvesting ==
  /\ pc = "collected"
  /\ all_ml_info # <<>>
  /\ all_data' = InitAbsent(all_data, all_ml_info)
  /\ phase' = "HARVESTING"
  /\ pc' = "record_anchor"
  /\ UNCHANGED <<locVars, restVars, scanned>>
  /\ UNCHANGED <<page_number, rows_left, all_ml_info, results_window, idx,
                 windows_before, new_windows, windows, focus, pending, status,
                 click_log, entered, outcome, fault>>

\* line 955: results_window = driver.current_window_handle
RecordAnchor ==
  /\ pc = "record_anchor"
  /\ focus \in windows
  /\ results_window' = focus
  /\ idx' = 1
  /\ pc' = "switch_anchor"
  /\ UNCHANGED <<locVars, restVars, scanned>>
  /\ UNCHANGED <<phase, page_number, rows_left, all_ml_info, all_data,
                 windows_before, new_windows, windows, focus, pending, status,
                 click_log, entered, outcome, fault>>

\* line 955 raises (the focused window is gone): caught at line 1119
RecordAnchorRaises ==
  /\ pc = "record_anchor"
  /\ focus \notin windows
  /\ OuterHandler("record_anchor")
  /\ UNCHANGED <<locVars, restVars, scanned>>
  /\ UNCHANGED <<page_number, rows_left, all_ml_info, results_window, idx,
                 windows_before, new_windows, windows, focus, pending,
                 click_log, entered, outcome>>

Collecting ==
  \/ FindLinks \/ NoLinksOnPage \/ CollectRaises \/ ScanRow
  \/ NextPage \/ LastPage \/ ReturnEmpty \/ StartHarvesting
  \/ RecordAnchor \/ RecordAnchorRaises

\* ------------------------------------------------------------- HARVESTING
ml_number_of_first == all_ml_info[1].ml_number

ml_number == all_ml_info[idx].ml_number
ikey == all_ml_info[idx].ikey

\* harvesting one page at a time: after the last identifier, collect again
AdvancePerPage ==
  IF idx < Len(all_ml_info)
  THEN /\ idx' = idx + 1
       /\ pc' = "switch_anchor"
       /\ UNCHANGED <<phase, status>>
  ELSE /\ idx' = idx
       /\ pc' = IF page_number < MaxPages THEN "find_links" ELSE "done"
       /\ phase' = IF page_number < MaxPages THEN "COLLECTING" ELSE "DONE"
       /\ status' = IF page_number < MaxPages THEN status ELSE "returned"

\* the for statement of line 957 moving on, or lines 1112-1117 after the last
Advance ==
  IF idx < Len(all_ml_info)
  THEN /\ idx' = idx + 1
       /\ pc' = "switch_anchor"
       /\ UNCHANGED <<phase, status>>
  ELSE /\ idx' = idx
       /\ pc' = "done"
       /\ phase' = "DONE"
       /\ status' = "returned"

\* driver.switch_to.window(target) under a try whose except passes
GuardedSwitch(target, wins, cur) == IF target \in wins THEN target ELSE cur

\* the handler ending the loop instead of continuing
IterationHandlerBreaks(wins) ==
  /\ all_data' = DictSet(all_data, ml_number, None)
  /\ windows' = wins
  /\ focus' = GuardedSwitch(results_window, wins, focus)
  /\ outcome' = [outcome EXCEPT ![idx] = "exception"]
  /\ idx' = idx
  /\ pc' = "done"
  /\ phase' = "DONE"
  /\ status' = "returned"

\* lines 1103-1110: the per-identifier handler; wins is window_handles by then
IterationHandler(wins) ==
  /\ all_data' = DictSet(all_data, ml_number, None)
  /\ windows' = wins
  /\ focus' = GuardedSwitch(results_window, wins, focus)
  /\ outcome' = [outcome EXCEPT ![idx] = "exception"]
  /\ Advance

\* lines 973-981, 1010-1012, 1018-1020: continue without touching all_data
SkipIdentifier ==
  /\ outcome' = [outcome EXCEPT ![idx] = "skipped"]
  /\ Advance

\* lines 964-966: back to the results window
SwitchAnchor ==
  /\ pc = "switch_anchor"
  /\ results_window \in windows
  /\ focus' = results_window
  /\ pc' = "refind"
  /\ UNCHANGED <<locVars, restVars, scanned>>
  /\ UNCHANGED <<phase, page_number, rows_left, all_ml_info, all_data,
                 results_window, idx, windows_before, new_windows, windows,
                 pending, status, click_log, entered, outcome, fault>>

\* continue where the code breaks
AnchorGoneContinues ==
  /\ pc = "switch_anchor"
  /\ results_window \notin windows
  /\ SkipIdentifier
  /\ UNCHANGED <<locVars, restVars, scanned>>
  /\ UNCHANGED <<page_number, rows_left, all_ml_info, all_data, results_window,
                 windows_before, new_windows, windows, focus, pending,
                 click_log, entered, fault>>

\* lines 967-970: the results window is gone, break
AnchorGone ==
  /\ pc = "switch_anchor"
  /\ results_window \notin windows
  /\ outcome' = [outcome EXCEPT ![idx] = "aborted"]
  /\ pc' = "done"
  /\ phase' = "DONE"
  /\ status' = "returned"
  /\ UNCHANGED <<locVars, restVars, scanned>>
  /\ UNCHANGED <<page_number, rows_left, all_ml_info, all_data, results_window,
                 idx, windows_before, new_windows, windows, focus, pending,
                 click_log, entered, fault>>

\* lines 972-978: the detail link is found again by its ikey
RefindLink ==
  /\ pc = "refind"
  /\ focus \in windows
  /\ pc' = "click"
  /\ UNCHANGED <<locVars, restVars, scanned>>
  /\ UNCHANGED <<phase, page_number, rows_left, all_ml_info, all_data,
                 results_window, idx, windows_before, new_windows, windows,
                 focus, pending, status, click_log, entered, outcome, fault>>

\* the link is not found and the code clicks all the same
RefindFailsStillClicks ==
  /\ pc = "refind"
  /\ pending' = pending \cup {Tab(idx)}
  /\ click_log' = Append(click_log, idx)
  /\ SkipIdentifier
  /\ UNCHANGED <<locVars, restVars, scanned>>
  /\ UNCHANGED <<page_number, rows_left, all_ml_info, all_data, results_window,
                 windows_before, new_windows, windows, focus, entered, fault>>

\* lines 979-981: the link is not found
RefindFails ==
  /\ pc = "refind"
  /\ SkipIdentifier
  /\ UNCHANGED <<locVars, restVars, scanned>>
  /\ UNCHANGED <<page_number, rows_left, all_ml_info, all_data, results_window,
                 windows_before, new_windows, windows, focus, pending,
                 click_log, entered, fault>>

\* lines 984-1000: windows_before is taken and the link is clicked
ClickLink ==
  /\ pc = "click"
  /\ focus \in windows
  /\ windows_before' = windows
  /\ pending' = pending \cup {Tab(idx)}
  /\ click_log' = Append(click_log, idx)
  /\ pc' = "check1"
  /\ UNCHANGED <<locVars, restVars, scanned>>
  /\ UNCHANGED <<phase, page_number, rows_left, all_ml_info, all_data,
                 results_window, idx, new_windows, windows, focus, status,
                 entered, outcome, fault>>

\* lines 985-996 raise (scroll, window_handles, or both clicks): line 1018.
\* dispatched says whether the browser got the click before the exception.
ClickFails ==
  /\ pc = "click"
  /\ \E dispatched \in BOOLEAN :
       /\ pending' = IF dispatched THEN pending \cup {Tab(idx)} ELSE pending
       /\ click_log' = IF dispatched THEN Append(click_log, idx) ELSE click_log
       /\ windows_before' = IF dispatched THEN windows ELSE windows_before
  /\ SkipIdentifier
  /\ UNCHANGED <<locVars, restVars, scanned>>
  /\ UNCHANGED <<page_number, rows_left, all_ml_info, all_data, results_window,
                 new_windows, windows, focus, entered, fault>>

\* lines 1002-1005: the first look at the window handles
CheckNewWindows ==
  /\ pc = "check1"
  /\ new_windows' = windows \ windows_before
  /\ pc' = IF new_windows' = {} THEN "check2" ELSE "switch_new"
  /\ UNCHANGED <<locVars, restVars, scanned>>
  /\ UNCHANGED <<phase, page_number, rows_left, all_ml_info, all_data,
                 results_window, idx, windows_before, windows, focus, pending,
                 status, click_log, entered, outcome, fault>>

\* lines 1006-1009: the second look, a new handle is there
RecheckNewWindows ==
  /\ pc = "check2"
  /\ windows \ windows_before # {}
  /\ new_windows' = windows \ windows_before
  /\ pc' = "switch_new"
  /\ UNCHANGED <<locVars, restVars, scanned>>
  /\ UNCHANGED <<phase, page_number, rows_left, all_ml_info, all_data,
                 results_window, idx, windows_before, windows, focus, pending,
                 status, click_log, entered, outcome, fault>>

\* still no new handle and the check is made once more
NoNewWindowChecksAgain ==
  /\ pc = "check2"
  /\ windows \ windows_before = {}
  /\ new_windows' = {}
  /\ pc' = "check1"
  /\ UNCHANGED <<locVars, restVars, scanned>>
  /\ UNCHANGED <<phase, page_number, rows_left, all_ml_info, all_data,
                 results_window, idx, windows_before, windows, focus, pending,
                 status, click_log, entered, outcome, fault>>

\* lines 1010-1012: still no new handle, continue
NoNewWindow ==
  /\ pc = "check2"
  /\ windows \ windows_before = {}
  /\ new_windows' = {}
  /\ SkipIdentifier
  /\ UNCHANGED <<locVars, restVars, scanned>>
  /\ UNCHANGED <<page_number, rows_left, all_ml_info, all_data, results_window,
                 windows_before, windows, focus, pending, click_log, entered,
                 fault>>

\* lines 1014-1016: new_windows.pop() and the switch to it
SwitchNew ==
  /\ pc = "switch_new"
  /\ \E w \in new_windows :
       /\ w \in windows
       /\ focus' = w
       /\ entered' = entered \cup {w}
  /\ pc' = "settle"
  /\ UNCHANGED <<locVars, restVars, scanned>>
  /\ UNCHANGED <<phase, page_number, rows_left, all_ml_info, all_data,
                 results_window, idx, windows_before, new_windows, windows,
                 pending, status, click_log, outcome, fault>>

\* lines 1018-1020: window_handles or the switch raises after the click
ClickBlockRaises ==
  /\ pc \in {"check1", "check2", "switch_new"}
  /\ SkipIdentifier
  /\ UNCHANGED <<locVars, restVars, scanned>>
  /\ UNCHANGED <<page_number, rows_left, all_ml_info, all_data, results_window,
                 windows_before, new_windows, windows, focus, pending,
                 click_log, entered, fault>>

\* line 1034 raises: the per-identifier handler runs
UrlRaises ==
  /\ pc = "settle"
  /\ IterationHandler(windows)
  /\ UNCHANGED <<locVars, restVars, scanned>>
  /\ UNCHANGED <<page_number, rows_left, all_ml_info, results_window,
                 windows_before, new_windows, pending, click_log, entered, fault>>

\* lines 1038-1041, 1048-1051: a no-properties-found, login or authenticate
\* URL; the entry is set to None and _extract_mortgage_history is not called
NoDataPage ==
  /\ pc = "settle"
  /\ focus \in windows
  /\ all_data' = DictSet(all_data, ml_number, None)
  /\ pc' = "no_data"
  /\ UNCHANGED <<locVars, restVars, scanned>>
  /\ UNCHANGED <<phase, page_number, rows_left, all_ml_info, results_window,
                 idx, windows_before, new_windows, windows, focus, pending,
                 status, click_log, entered, outcome, fault>>

\* lines 1043-1046, 1053-1056: close the tab, switch back, continue; an
\* exception of either call goes to the per-identifier handler
CloseNoData ==
  /\ pc = "no_data"
  /\ \E closes \in BOOLEAN :
       /\ closes => focus \in windows
       /\ IF closes /\ results_window \in windows
          THEN /\ windows' = windows \ {focus}
               /\ focus' = results_window
               /\ outcome' = [outcome EXCEPT ![idx] = "no_data"]
               /\ Advance
               /\ UNCHANGED all_data
          ELSE IterationHandler(IF closes THEN windows \ {focus} ELSE windows)
  /\ UNCHANGED <<locVars, restVars, scanned>>
  /\ UNCHANGED <<page_number, rows_left, all_ml_info, results_window,
                 windows_before, new_windows, pending, click_log, entered, fault>>

\* line 1058: the detail page is there
DetailsPage ==
  /\ pc = "settle"
  /\ focus \in windows
  /\ pc' = "extract"
  /\ UNCHANGED <<locVars, restVars, scanned>>
  /\ UNCHANGED <<phase, page_number, rows_left, all_ml_info, all_data,
                 results_window, idx, windows_before, new_windows, windows,
                 focus, pending, status, click_log, entered, outcome, fault>>

\* lines 1060-1074: _extract_mortgage_history returns a record or None
Extract ==
  /\ pc = "extract"
  /\ \E found \in BOOLEAN :
       /\ found => focus \in windows
       /\ all_data' = DictSet(all_data, ml_number,
                              IF found THEN MortgageData(focus) ELSE None)
       /\ outcome' = [outcome EXCEPT ![idx] = IF found THEN "ok" ELSE "no_data"]
  /\ pc' = "close"
  /\ UNCHANGED <<locVars, restVars, scanned>>
  /\ UNCHANGED <<phase, page_number, rows_left, all_ml_info, results_window,
                 idx, windows_before, new_windows, windows, focus, pending,
                 status, click_log, entered, fault>>

\* lines 1076-1101: close the tab and switch back, both guarded
CloseTab ==
  /\ pc = "close"
  /\ \E closes \in BOOLEAN :
       /\ closes => focus \in windows
       /\ windows' = IF closes THEN windows \ {focus} ELSE windows
       /\ focus' = GuardedSwitch(results_window, windows', focus)
  /\ Advance
  /\ UNCHANGED <<locVars, restVars, scanned>>
  /\ UNCHANGED <<page_number, rows_left, all_ml_info, all_data, results_window,
                 windows_before, new_windows, pending, click_log, entered,
                 outcome, fault>>

Harvesting ==
  \/ SwitchAnchor \/ AnchorGone \/ RefindLink \/ RefindFails
  \/ ClickLink \/ ClickFails \/ CheckNewWindows \/ RecheckNewWindows
  \/ NoNewWindow \/ SwitchNew \/ ClickBlockRaises
  \/ UrlRaises \/ NoDataPage \/ CloseNoData \/ DetailsPage \/ Extract
  \/ CloseTab

\* ------------------------------------------------------------- the browser
\* a tab requested by a click appears in window_handles
TabOpens ==
  /\ pc # "done"
  /\ \E t \in pending :
       /\ windows' = windows \cup {t}
       /\ pending' = pending \ {t}
  /\ UNCHANGED <<locVars, restVars, scanned>>
  /\ UNCHANGED <<phase, pc, page_number, rows_left, all_ml_info, all_data,
                 results_window, idx, windows_before, new_windows, focus,
                 status, click_log, entered, outcome, fault>>

\* the results window is closed from outside the engine
AnchorCloses ==
  /\ pc # "done"
  /\ Anchor \in windows
  /\ windows' = windows \ {Anchor}
  /\ UNCHANGED <<locVars, restVars, scanned>>
  /\ UNCHANGED <<phase, pc, page_number, rows_left, all_ml_info, all_data,
                 results_window, idx, windows_before, new_windows, focus,
                 pending, status, click_log, entered, outcome, fault>>

Browser == TabOpens \/ AnchorCloses

\* ------------------------------------------------------ resilient locator
\* what wait.until(presence_of_element_located(...)) does for one strategy:
\* "found" returns the element, "timeout" raises TimeoutException, "error"
\* raises another WebDriverException
Answers == {"found", "timeout", "error"}

StrategyLists ==
  UNION {[1..n -> Answers] : n \in 0..MaxStrategies}

NoResult == [kind |-> "none", at |-> NoMatch, carried |-> <<>>]
Element(i) == [kind |-> "element", at |-> i, carried |-> <<>>]
Propagated(i) == [kind |-> "WebDriverException", at |-> i, carried |-> <<>>]
ElementNotFoundError(sel) ==
  [kind |-> "ElementNotFoundError", at |-> NoMatch, carried |-> sel]

CaughtAnyException(answer) == TRUE

\* except TimeoutException: continue
CaughtByLocator(answer) == answer = "timeout"

AfterTimeoutSkipsOne(i) == i + 2

AfterTimeout(i) == i + 1

LocIdle ==
  /\ loc_owner = "idle"
  /\ selectors = <<>>
  /\ loc_i = NoMatch
  /\ attempts = <<>>
  /\ loc_result = NoResult

LocInit ==
  /\ loc_owner \in {"Navigator", "LoginHandler"}
  /\ selectors \in StrategyLists
  /\ loc_i = 1
  /\ attempts = <<>>
  /\ loc_result = NoResult

\* one pass of the for loop body
TryStrategy ==
  /\ loc_owner # "idle"
  /\ loc_result = NoResult
  /\ loc_i \in 1..Len(selectors)
  /\ attempts' = Append(attempts, loc_i)
  /\ IF selectors[loc_i] = "found"
     THEN /\ loc_result' = Element(loc_i)
          /\ loc_i' = loc_i
     ELSE IF CaughtByLocator(selectors[loc_i])
     THEN /\ loc_result' = loc_result
          /\ loc_i' = AfterTimeout(loc_i)
     ELSE /\ loc_result' = Propagated(loc_i)
          /\ loc_i' = loc_i
  /\ UNCHANGED <<loc_owner, selectors>>
  /\ UNCHANGED <<engineVars, restVars>>

\* the loop ran out of strategies
AllSelectorsFailed ==
  /\ loc_owner # "idle"
  /\ loc_result = NoResult
  /\ loc_i \notin 1..Len(selectors)
  /\ loc_result' = ElementNotFoundError(selectors)
  /\ UNCHANGED <<loc_owner, selectors, loc_i, attempts>>
  /\ UNCHANGED <<engineVars, restVars>>

Locate == TryStrategy \/ AllSelectorsFailed

InitLocate == EngineInit /\ LocInit /\ RestIdle

NextLocate == Locate

SpecLocate == InitLocate /\ [][NextLocate]_vars

\* ------------------------------------------------------- session manager
max_retries == 3

\* lines 213-218: SessionError is re-raised, anything else is wrapped in one
CreateDriverHandler(exc) == "SessionError"

\* create_driver is entered: lines 110-112
BeginCreateDriver ==
  /\ sess_pc = "idle"
  /\ sess_pc' = "options"
  /\ service' = "None"
  /\ retry_count' = 0
  /\ driver' = NoDriver
  /\ last_call' = Call("create_driver", "running", "none")
  /\ UNCHANGED <<self_driver, self_wait, started, quit_called, quit_failed>>

\* an exception of kind exc reaches the handlers of lines 213-218
CreateDriverRaises(exc) ==
  /\ sess_pc' = "idle"
  /\ last_call' = Call("create_driver", CreateDriverHandler(exc), "none")
  /\ UNCHANGED <<service, retry_count, driver, self_driver, self_wait, started,
                 quit_called, quit_failed>>

\* lines 79-118: the options and the cache directory; os.makedirs may raise
PrepareOptions ==
  /\ sess_pc = "options"
  /\ \/ /\ sess_pc' = "wdm"
        /\ UNCHANGED <<service, retry_count, driver, self_driver, self_wait,
                       started, quit_called, quit_failed, last_call>>
     \/ CreateDriverRaises("Exception")
  /\ UNCHANGED <<calls, outsideSession>>

\* lines 120-142: one pass of the ChromeDriverManager retry loop
InstallDriver ==
  /\ sess_pc = "wdm"
  /\ retry_count < max_retries /\ service = "None"
  /\ \/ /\ service' = "wdm"
        /\ sess_pc' = "chrome"
        /\ UNCHANGED retry_count
     \/ /\ retry_count' = retry_count + 1
        /\ UNCHANGED <<service, sess_pc>>
  /\ UNCHANGED <<driver, self_driver, self_wait, started, quit_called,
                 quit_failed, last_call, calls, outsideSession>>

\* line 120 false with service still None: on to line 145
RetriesExhausted ==
  /\ sess_pc = "wdm"
  /\ ~(retry_count < max_retries /\ service = "None")
  /\ sess_pc' = "system"
  /\ UNCHANGED <<service, retry_count, driver, self_driver, self_wait,
                 started, quit_called, quit_failed, last_call, calls,
                 outsideSession>>

\* lines 145-183: a system chromedriver is used, or SessionError is raised
SystemChromedriver ==
  /\ sess_pc = "system"
  /\ \/ /\ service' = "system"
        /\ sess_pc' = "chrome"
        /\ UNCHANGED <<retry_count, driver, self_driver, self_wait, started,
                       quit_called, quit_failed, last_call>>
     \/ CreateDriverRaises("SessionError")
  /\ UNCHANGED <<calls, outsideSession>>

\* lines 185-201: webdriver.Chrome starts the browser, or raises without one
StartChrome ==
  /\ sess_pc = "chrome"
  /\ \/ /\ driver' = Chrome(Cardinality(started) + 1)
        /\ started' = started \cup {Chrome(Cardinality(started) + 1)}
        /\ sess_pc' = "timeouts"
        /\ UNCHANGED <<service, retry_count, self_driver, self_wait,
                       quit_called, quit_failed, last_call>>
     \/ \E exc \in {"SessionError", "Exception"} : CreateDriverRaises(exc)
  /\ UNCHANGED <<calls, outsideSession>>

\* lines 204-205: implicitly_wait and set_page_load_timeout on the new browser
SetTimeouts ==
  /\ sess_pc = "timeouts"
  /\ \/ /\ sess_pc' = "assign"
        /\ UNCHANGED <<service, retry_count, driver, self_driver, self_wait,
                       started, quit_called, quit_failed, last_call>>
     \/ CreateDriverRaises("Exception")
  /\ UNCHANGED <<calls, outsideSession>>

\* lines 207-211
AssignDriver ==
  /\ sess_pc = "assign"
  /\ self_driver' = driver
  /\ self_wait' = driver
  /\ sess_pc' = "idle"
  /\ last_call' = Call("create_driver", "returned", "none")
  /\ UNCHANGED <<service, retry_count, driver, started, quit_called,
                 quit_failed, calls, outsideSession>>

FinallySkipped(d, quit_raises) == IF quit_raises THEN d ELSE NoDriver

\* lines 228-230: the handle after the finally clause
Finally(d, quit_raises) == NoDriver

\* lines 220-230: close
close ==
  /\ sess_pc = "idle"
  /\ IF self_driver # NoDriver
     THEN \E quit_raises \in BOOLEAN :
            /\ quit_called' = quit_called \cup {self_driver}
            /\ quit_failed' = IF quit_raises
                              THEN quit_failed \cup {self_driver}
                              ELSE quit_failed
            /\ self_driver' = Finally(self_driver, quit_raises)
            /\ self_wait' = Finally(self_wait, quit_raises)
            /\ last_call' = Call("close", "returned",
                                 IF quit_raises THEN "raised" ELSE "ok")
     ELSE /\ last_call' = Call("close", "returned", "none")
          /\ UNCHANGED <<self_driver, self_wait, quit_called, quit_failed>>
  /\ UNCHANGED <<sess_pc, service, retry_count, driver, started>>

\* a caller holding a manager without a driver calls create_driver (as
\* __enter__ of line 242 and session() of line 236 do on a new manager)
CallCreateDriver ==
  /\ calls < MaxCalls
  /\ self_driver = NoDriver
  /\ BeginCreateDriver
  /\ calls' = calls + 1
  /\ UNCHANGED outsideSession

\* a caller calls close, in whatever state the manager is
CallClose ==
  /\ calls < MaxCalls
  /\ close
  /\ calls' = calls + 1
  /\ UNCHANGED outsideSession

CreateDriver ==
  \/ PrepareOptions
  \/ InstallDriver
  \/ RetriesExhausted
  \/ SystemChromedriver
  \/ StartChrome
  \/ SetTimeouts
  \/ AssignDriver

InitSession == EngineInit /\ LocIdle /\ RestIdle

NextSession == CallCreateDriver \/ CallClose \/ CreateDriver

SpecSession == InitSession /\ [][NextSession]_vars

\* ------------------------------------------------ configure_search_filters
Chars == {"n", "E", "s", "W", " ", "x"}
DirStrings == UNION {[1..n -> Chars] : n \in 0..MaxDirLen}
StreetDirections == {Omitted} \cup {Given(t) : t \in DirStrings}

\* str.upper, character by character
UpperChar(c) ==
  CASE c = "n" -> "N" [] c = "s" -> "S" [] c = "x" -> "X" [] OTHER -> c

upper(t) == [i \in 1..Len(t) |-> UpperChar(t[i])]

RECURSIVE lstrip(_)
lstrip(t) == IF t # <<>> /\ Head(t) = " " THEN lstrip(Tail(t)) ELSE t

RECURSIVE rstrip(_)
rstrip(t) ==
  IF t # <<>> /\ t[Len(t)] = " " THEN rstrip(SubSeq(t, 1, Len(t) - 1)) ELSE t

\* str.strip
strip(t) == rstrip(lstrip(t))

\* lines 541-550
STREET_DIRECTION_MAP ==
  (<<"N">> :> "121") @@ (<<"N", "E">> :> "122") @@ (<<"E">> :> "123") @@
  (<<"S", "E">> :> "124") @@ (<<"S">> :> "125") @@ (<<"S", "W">> :> "126") @@
  (<<"W">> :> "127") @@ (<<"N", "W">> :> "128")

Validation(exc, message, value) ==
  [exc |-> exc, message |-> message, value |-> value]

\* lines 553-560: None has no upper(), so line 553 raises AttributeError
ValidateDirection(d) ==
  IF ~d.given
  THEN Validation("AttributeError", "no attribute upper", "unset")
  ELSE LET street_direction_upper == strip(upper(d.text))
       IN IF street_direction_upper \notin DOMAIN STREET_DIRECTION_MAP
          THEN Validation("NavigationError", "Invalid street direction",
                          "unset")
          ELSE Validation("none", "none",
                          STREET_DIRECTION_MAP[street_direction_upper])

\* the strategies that end the loop of _find_element_with_fallback
Decisive(sel) == {i \in 1..Len(sel) : ~CaughtByLocator(sel[i])}

\* lines 754-782 as one function of the page's answers
find_element_with_fallback(sel) ==
  IF Decisive(sel) = {}
  THEN ElementNotFoundError(sel)
  ELSE LET k == CHOOSE i \in Decisive(sel) : \A j \in Decisive(sel) : i <= j
       IN IF sel[k] = "found" THEN Element(k) ELSE Propagated(k)

\* lines 748-752
FiltersHandler(exc) ==
  IF exc = "ElementNotFoundError"
  THEN Raised("NavigationError", "Could not find form element")
  ELSE Raised("NavigationError", "Failed to configure search filters")

OptionalHandlerReraises(exc) == exc

\* lines 680-681 and 703-704: except Exception, print, go on
OptionalHandler(exc) == "continue"

ShouldClickAlways(c, is_selected) == TRUE

\* lines 575, 587, 599 (if is_selected) and 612 (if not is_selected)
ShouldClick(c, is_selected) ==
  IF c = "closed" THEN ~is_selected ELSE is_selected

\* the values of lines 677 and 700
OptionValue == ("type_of_property" :> "25535") @@ ("financing" :> "24512")

\* the order of the steps inside the try of line 561
NextStep ==
  ("active" :> "coming_soon") @@ ("coming_soon" :> "active_with_contract") @@
  ("active_with_contract" :> "closed") @@ ("closed" :> "street_number") @@
  ("street_number" :> "street_direction") @@
  ("street_direction" :> "street_name") @@
  ("street_name" :> "type_of_property") @@
  ("type_of_property" :> "financing") @@ ("financing" :> "results") @@
  ("results" :> "click") @@ ("click" :> "wait") @@ ("wait" :> "done")

\* an exception of kind exc raised by step reaches lines 748-752
ConfigureRaises(step, exc) ==
  /\ cfg_pc' = "done"
  /\ failed_at' = Failure(step, exc)
  /\ cfg_result' = FiltersHandler(exc)

\* the step is over and the next one begins
StepDone ==
  /\ cfg_pc' = NextStep[cfg_pc]
  /\ UNCHANGED <<failed_at, cfg_result>>

\* lines 553-560, before the try
Validate ==
  /\ cfg_pc = "validate"
  /\ LET v == ValidateDirection(street_direction)
     IN IF v.exc = "none"
        THEN /\ cfg_pc' = "active"
             /\ direction_value' = v.value
             /\ UNCHANGED <<failed_at, cfg_result>>
        ELSE /\ cfg_pc' = "done"
             /\ failed_at' = Failure("validate", v.exc)
             /\ cfg_result' = Raised(v.exc, v.message)
             /\ UNCHANGED direction_value
  /\ UNCHANGED <<street_direction, checked, checked0, clicks, processed,
                 touched, selected, swallowed, results_clicked>>
  /\ UNCHANGED outsideFilters

\* lines 569-618: one status checkbox is located, asked for its state and
\* clicked if needed; a click that returns toggles the checkbox
StatusCheckbox ==
  /\ cfg_pc \in StatusCheckboxes
  /\ \E sel \in StrategyLists, raises \in {"none", "is_selected", "click"} :
       LET c == cfg_pc
           r == find_element_with_fallback(sel)
       IN /\ touched' = touched \cup {c}
          /\ IF r.kind # "element"
             THEN /\ ConfigureRaises(c, r.kind)
                  /\ UNCHANGED <<checked, clicks, processed>>
             ELSE IF raises = "is_selected"
             THEN /\ ConfigureRaises(c, "WebDriverException")
                  /\ UNCHANGED <<checked, clicks, processed>>
             ELSE IF ~ShouldClick(c, checked[c])
             THEN /\ StepDone
                  /\ processed' = processed \cup {c}
                  /\ UNCHANGED <<checked, clicks>>
             ELSE IF raises = "click"
             THEN /\ ConfigureRaises(c, "WebDriverException")
                  /\ UNCHANGED <<checked, clicks, processed>>
             ELSE /\ StepDone
                  /\ checked' = [checked EXCEPT ![c] = ~@]
                  /\ clicks' = [clicks EXCEPT ![c] = @ + 1]
                  /\ processed' = processed \cup {c}
  /\ UNCHANGED <<street_direction, direction_value, checked0, selected,
                 swallowed, results_clicked>>
  /\ UNCHANGED outsideFilters

\* lines 624-634 and 648-658: a text field is located, cleared and filled
TextField ==
  /\ cfg_pc \in {"street_number", "street_name"}
  /\ \E sel \in StrategyLists, raises \in BOOLEAN :
       LET r == find_element_with_fallback(sel)
       IN IF r.kind # "element"
          THEN ConfigureRaises(cfg_pc, r.kind)
          ELSE IF raises
          THEN ConfigureRaises(cfg_pc, "WebDriverException")
          ELSE StepDone
  /\ touched' = touched \cup {cfg_pc}
  /\ UNCHANGED <<street_direction, direction_value, checked, checked0, clicks,
                 processed, selected, swallowed, results_clicked>>
  /\ UNCHANGED outsideFilters

\* lines 636-646: select_by_value(direction_value) on the direction dropdown
DirectionDropdown ==
  /\ cfg_pc = "street_direction"
  /\ \E sel \in StrategyLists, raises \in BOOLEAN :
       LET r == find_element_with_fallback(sel)
       IN IF r.kind # "element"
          THEN ConfigureRaises(cfg_pc, r.kind) /\ UNCHANGED selected
          ELSE IF raises
          THEN ConfigureRaises(cfg_pc, "WebDriverException")
               /\ UNCHANGED selected
          ELSE /\ StepDone
               /\ selected' = [selected EXCEPT ![cfg_pc] = direction_value]
  /\ touched' = touched \cup {cfg_pc}
  /\ UNCHANGED <<street_direction, direction_value, checked, checked0, clicks,
                 processed, swallowed, results_clicked>>
  /\ UNCHANGED outsideFilters

\* lines 660-704: the two classification dropdowns, each under its own try
OptionalDropdown ==
  /\ cfg_pc \in {"type_of_property", "financing"}
  /\ \E sel \in StrategyLists, raises \in BOOLEAN :
       LET r == find_element_with_fallback(sel)
           exc == IF r.kind # "element" THEN r.kind
                  ELSE IF raises THEN "WebDriverException" ELSE "none"
       IN IF exc = "none"
          THEN /\ StepDone
               /\ selected' = [selected EXCEPT ![cfg_pc] = OptionValue[cfg_pc]]
               /\ UNCHANGED swallowed
          ELSE IF OptionalHandler(exc) = "continue"
          THEN /\ StepDone
               /\ swallowed' = swallowed \cup {cfg_pc}
               /\ UNCHANGED selected
          ELSE /\ ConfigureRaises(cfg_pc, OptionalHandler(exc))
               /\ UNCHANGED <<selected, swallowed>>
  /\ touched' = touched \cup {cfg_pc}
  /\ UNCHANGED <<street_direction, direction_value, checked, checked0, clicks,
                 processed, results_clicked>>
  /\ UNCHANGED outsideFilters

\* lines 709-719: the Results control is located and scrolled into view
FindResults ==
  /\ cfg_pc = "results"
  /\ \E sel \in StrategyLists, raises \in BOOLEAN :
       LET r == find_element_with_fallback(sel)
       IN IF r.kind # "element"
          THEN ConfigureRaises(cfg_pc, r.kind)
          ELSE IF raises
          THEN ConfigureRaises(cfg_pc, "WebDriverException")
          ELSE StepDone
  /\ touched' = touched \cup {cfg_pc}
  /\ UNCHANGED <<street_direction, direction_value, checked, checked0, clicks,
                 processed, selected, swallowed, results_clicked>>
  /\ UNCHANGED outsideFilters

\* lines 721-728: click(), and the JavaScript click if click() raises
ClickResults ==
  /\ cfg_pc = "click"
  /\ \E how \in {"regular", "javascript", "neither"} :
       IF how = "neither"
       THEN ConfigureRaises(cfg_pc, "WebDriverException")
            /\ UNCHANGED results_clicked
       ELSE StepDone /\ results_clicked' = TRUE
  /\ touched' = touched \cup {cfg_pc}
  /\ UNCHANGED <<street_direction, direction_value, checked, checked0, clicks,
                 processed, selected, swallowed>>
  /\ UNCHANGED outsideFilters

\* lines 730-746: the body wait tolerates a timeout; current_url is returned
WaitResults ==
  /\ cfg_pc = "wait"
  /\ \E body \in Answers, url_raises \in BOOLEAN :
       IF body = "error" \/ url_raises
       THEN ConfigureRaises(cfg_pc, "WebDriverException")
       ELSE /\ cfg_pc' = NextStep[cfg_pc]
            /\ cfg_result' = Returned("results_url")
            /\ UNCHANGED failed_at
  /\ touched' = touched \cup {cfg_pc}
  /\ UNCHANGED <<street_direction, direction_value, checked, checked0, clicks,
                 processed, selected, swallowed, results_clicked>>
  /\ UNCHANGED outsideFilters

configure_search_filters ==
  \/ Validate
  \/ StatusCheckbox
  \/ TextField
  \/ DirectionDropdown
  \/ OptionalDropdown
  \/ FindResults
  \/ ClickResults
  \/ WaitResults

\* the call begins on the RE1/RE2 form, whatever state its checkboxes are in
InitFilters ==
  /\ EngineInit /\ LocIdle /\ SessIdle /\ LoginIdle /\ RunIdle /\ MoreIdle
  /\ cfg_pc = "validate"
  /\ street_direction \in StreetDirections
  /\ direction_value = "unset"
  /\ checked \in [StatusCheckboxes -> BOOLEAN]
  /\ checked0 = checked
  /\ clicks = [c \in StatusCheckboxes |-> 0]
  /\ processed = {}
  /\ touched = {}
  /\ selected = [d \in Dropdowns |-> "unset"]
  /\ swallowed = {}
  /\ failed_at = NoFailure
  /\ results_clicked = FALSE
  /\ cfg_result = Running

NextFilters == configure_search_filters

SpecFilters == InitFilters /\ [][NextFilters]_vars

\* ------------------------------------------------------ LoginHandler.login
ErrorTexts == {<<>>, <<"Invalid credentials">>, <<"", "Account locked">>}

\* what the site may show after the submit
Pages == [on_login : BOOLEAN, marker : BOOLEAN, errors : ErrorTexts]

Exc(kind, message) == [kind |-> kind, message |-> message]
LoginError(message) == Exc("LoginError", message)
True == [kind |-> "True", message |-> <<>>]

LoginHandlerNarrow(exc) ==
  IF exc.kind = "ElementNotFoundError"
  THEN LoginError(<<"Login failed - element not found: ">> \o exc.message)
  ELSE exc

\* lines 198-202: every exception of the body, the LoginError of lines 190
\* and 192 included, leaves as LoginError with str(e) in its message
LoginHandler(exc) ==
  IF exc.kind = "ElementNotFoundError"
  THEN LoginError(<<"Login failed - element not found: ">> \o exc.message)
  ELSE LoginError(<<"Login failed: ">> \o exc.message)

WaitConditionUrlOnly(p) == ~p.on_login

\* lines 165-168: the condition of the post-login wait
WaitCondition(p) == ~p.on_login \/ p.marker

\* an exception raised inside the try of line 39
LoginRaises(exc) ==
  /\ login_pc' = "done"
  /\ login_result' = LoginHandler(exc)

\* a driver call raises a WebDriverException
DriverRaises ==
  /\ LoginRaises(Exc("WebDriverException", <<"driver">>))
  /\ driver_fault' = TRUE

\* lines 42-47: driver.get and the wait for the body
LoadPage ==
  /\ login_pc = "get"
  /\ \/ login_pc' = "username" /\ UNCHANGED <<login_result, driver_fault>>
     \/ DriverRaises
  /\ UNCHANGED <<page, polls, submitted, seen_off_login, seen_marker,
                 timed_out, url_after, error_seen>>
  /\ UNCHANGED outsideLogin

\* lines 50-103 and 108-138: a field or the button is located and used
LocateAndUse ==
  /\ login_pc \in {"username", "password", "button"}
  /\ \E sel \in StrategyLists, raises \in BOOLEAN :
       LET r == find_element_with_fallback(sel)
       IN IF r.kind = "ElementNotFoundError"
          THEN /\ LoginRaises(Exc(r.kind, <<"selectors">>))
               /\ UNCHANGED driver_fault
          ELSE IF r.kind # "element" \/ raises
          THEN DriverRaises
          ELSE /\ login_pc' = (IF login_pc = "username" THEN "password"
                               ELSE IF login_pc = "password" THEN "button"
                               ELSE "click")
               /\ UNCHANGED <<login_result, driver_fault>>
  /\ UNCHANGED <<page, polls, submitted, seen_off_login, seen_marker,
                 timed_out, url_after, error_seen>>
  /\ UNCHANGED outsideLogin

\* lines 141-158: the click, by click() or by JavaScript, and the site's answer
ClickLogin ==
  /\ login_pc = "click"
  /\ \/ /\ login_pc' = "wait"
        /\ submitted' = TRUE
        /\ page' \in Pages
        /\ UNCHANGED <<login_result, driver_fault>>
     \/ DriverRaises /\ UNCHANGED <<submitted, page>>
  /\ UNCHANGED <<polls, seen_off_login, seen_marker, timed_out, url_after,
                 error_seen>>
  /\ UNCHANGED outsideLogin

\* lines 164-173: one poll of the wait; the marker is looked for only when
\* the URL is still on the login path
Poll ==
  /\ login_pc = "wait"
  /\ polls < MaxPolls
  /\ \/ /\ polls' = polls + 1
        /\ seen_off_login' = (seen_off_login \/ ~page.on_login)
        /\ seen_marker' = (seen_marker \/ (page.on_login /\ page.marker))
        /\ IF WaitCondition(page)
           THEN login_pc' = "done" /\ login_result' = True
           ELSE UNCHANGED <<login_pc, login_result>>
        /\ UNCHANGED driver_fault
     \/ DriverRaises /\ UNCHANGED <<polls, seen_off_login, seen_marker>>
  /\ UNCHANGED <<page, submitted, timed_out, url_after, error_seen>>
  /\ UNCHANGED outsideLogin

\* line 174: the wait gives up
WaitTimesOut ==
  /\ login_pc = "wait"
  /\ polls = MaxPolls
  /\ login_pc' = "timeout"
  /\ timed_out' = TRUE
  /\ UNCHANGED <<page, polls, submitted, seen_off_login, seen_marker,
                 url_after, error_seen, driver_fault, login_result>>
  /\ UNCHANGED outsideLogin

\* lines 175-180 and 193-196: the URL is read once more
ReadUrlAfterTimeout ==
  /\ login_pc = "timeout"
  /\ \/ /\ url_after' = (IF page.on_login THEN "login" ELSE "elsewhere")
        /\ IF page.on_login
           THEN login_pc' = "errors" /\ UNCHANGED login_result
           ELSE login_pc' = "done" /\ login_result' = True
        /\ UNCHANGED driver_fault
     \/ DriverRaises /\ UNCHANGED url_after
  /\ UNCHANGED <<page, polls, submitted, seen_off_login, seen_marker,
                 timed_out, error_seen>>
  /\ UNCHANGED outsideLogin

\* lines 183-192: the first inline error element, if there is one
CheckErrors ==
  /\ login_pc = "errors"
  /\ \/ /\ IF page.errors # <<>>
           THEN /\ error_seen' = <<Head(page.errors)>>
                /\ LoginRaises(
                     LoginError(<<"Login failed: ", Head(page.errors)>>))
           ELSE /\ UNCHANGED error_seen
                /\ LoginRaises(LoginError(
                     <<"Login failed: Still on login page after attempt">>))
        /\ UNCHANGED driver_fault
     \/ DriverRaises /\ UNCHANGED error_seen
  /\ UNCHANGED <<page, polls, submitted, seen_off_login, seen_marker,
                 timed_out, url_after>>
  /\ UNCHANGED outsideLogin

\* the site goes on changing while the handler waits and reads
PageChanges ==
  /\ login_pc \in {"wait", "timeout", "errors"}
  /\ page' \in Pages \ {page}
  /\ UNCHANGED <<login_pc, polls, submitted, seen_off_login, seen_marker,
                 timed_out, url_after, error_seen, driver_fault, login_result>>
  /\ UNCHANGED outsideLogin

login ==
  \/ LoadPage
  \/ LocateAndUse
  \/ ClickLogin
  \/ Poll
  \/ WaitTimesOut
  \/ ReadUrlAfterTimeout
  \/ CheckErrors

InitLogin ==
  /\ EngineInit /\ LocIdle /\ SessIdle /\ FiltersIdle /\ RunIdle /\ MoreIdle
  /\ LoginIdleAt("get")

NextLogin == login \/ PageChanges

SpecLogin == InitLogin /\ [][NextLogin]_vars

\* ------------------------------------------------------ login_and_navigate
Response(success, message) ==
  [kind |-> "returned", success |-> success, status |-> message]
RaisedOut(exc) == [kind |-> "raised", success |-> FALSE, status |-> exc]
Delivery(payload, delivered) ==
  [status |-> payload, delivered |-> delivered]

\* what each step of lines 89-121 can raise
StepRaises ==
  ("login" :> {"LoginError"}) @@ ("matrix" :> {"NavigationError"}) @@
  ("menu" :> {"NavigationError"}) @@ ("extract" :> {})

\* the order of the steps inside the with block
NextRunStep ==
  ("login" :> "matrix") @@ ("matrix" :> "menu") @@ ("menu" :> "configure") @@
  ("configure" :> "extract") @@ ("extract" :> "deliver")

ExceptClauseNoCatchAll(exc) ==
  IF exc = "LoginError" THEN "Login failed"
  ELSE IF exc = "NavigationError" THEN "Navigation failed"
  ELSE IF exc \in {"ScraperError", "SessionError", "ElementNotFoundError"}
  THEN "Scraping error"
  ELSE "reraise"

\* lines 153-219: the except clause that takes the exception
ExceptClause(exc) ==
  IF exc = "LoginError" THEN "Login failed"
  ELSE IF exc = "NavigationError" THEN "Navigation failed"
  ELSE IF exc \in {"ScraperError", "SessionError", "ElementNotFoundError"}
  THEN "Scraping error"
  ELSE IF exc = "HTTPException" THEN "reraise"
  ELSE "Unexpected error"

\* an exception leaves a step inside the with block of line 85
StepRaised(exc) ==
  /\ pending_exc' = exc
  /\ fatal' = exc
  /\ run_pc' = "exit"

\* lines 52-56: no webhook URL is an HTTP 400, raised before the try
ValidateWebhook ==
  /\ run_pc = "start"
  /\ IF webhook_url = "None"
     THEN run_pc' = "returned" /\ response' = RaisedOut("HTTPException")
     ELSE run_pc' = "credentials" /\ UNCHANGED response
  /\ UNCHANGED <<webhook_url, credentials, session_manager, pending_exc,
                 fatal, steps_done, deliveries>>
  /\ UNCHANGED <<sessVars, outsideRun>>

\* lines 60-79: without credentials a failed payload is sent and the run ends
CheckCredentials ==
  /\ run_pc = "credentials"
  /\ IF credentials
     THEN /\ run_pc' = "enter"
          /\ UNCHANGED <<fatal, deliveries, response>>
     ELSE \E delivered \in BOOLEAN :
            /\ run_pc' = "finally"
            /\ fatal' = "MissingCredentials"
            /\ deliveries' = Append(deliveries, Delivery("failed", delivered))
            /\ response' = Response(FALSE, "MissingCredentials")
  /\ UNCHANGED <<webhook_url, credentials, session_manager, pending_exc,
                 steps_done>>
  /\ UNCHANGED <<sessVars, outsideRun>>

\* line 85: SessionManager().__enter__() calls create_driver
EnterSession ==
  /\ run_pc = "enter"
  /\ BeginCreateDriver
  /\ run_pc' = "entering"
  /\ steps_done' = Append(steps_done, "acquire")
  /\ UNCHANGED <<webhook_url, credentials, session_manager, pending_exc,
                 fatal, deliveries, response>>
  /\ UNCHANGED <<calls, outsideRun>>

\* line 85: __enter__ returned, session_manager is bound
SessionEntered ==
  /\ run_pc = "entering"
  /\ sess_pc = "idle" /\ last_call.result = "returned"
  /\ session_manager' = "bound"
  /\ run_pc' = "login"
  /\ UNCHANGED <<webhook_url, credentials, pending_exc, fatal, steps_done,
                 deliveries, response>>
  /\ UNCHANGED <<sessVars, outsideRun>>

\* line 85: __enter__ raised; __exit__ is not called, session_manager is None
SessionEnterRaised ==
  /\ run_pc = "entering"
  /\ sess_pc = "idle" /\ last_call.result \notin {"running", "returned"}
  /\ pending_exc' = last_call.result
  /\ fatal' = last_call.result
  /\ run_pc' = "handler"
  /\ UNCHANGED <<webhook_url, credentials, session_manager, steps_done,
                 deliveries, response>>
  /\ UNCHANGED <<sessVars, outsideRun>>

\* lines 89-104 and 121: login, the two navigation steps, the harvesting
WorkflowStep ==
  /\ run_pc \in DOMAIN StepRaises
  /\ steps_done' = Append(steps_done, run_pc)
  /\ \/ /\ run_pc' = NextRunStep[run_pc]
        /\ UNCHANGED <<pending_exc, fatal>>
     \/ \E exc \in StepRaises[run_pc] : StepRaised(exc)
  /\ UNCHANGED <<webhook_url, credentials, session_manager, deliveries,
                 response>>
  /\ UNCHANGED <<sessVars, outsideRun>>

\* lines 111-115: configure_search_filters with the request's direction
ConfigureStep ==
  /\ run_pc = "configure"
  /\ steps_done' = Append(steps_done, run_pc)
  /\ LET v == ValidateDirection(street_direction)
     IN IF v.exc # "none"
        THEN StepRaised(v.exc)
        ELSE \/ /\ run_pc' = NextRunStep[run_pc]
                /\ UNCHANGED <<pending_exc, fatal>>
             \/ StepRaised(FiltersHandler("WebDriverException").kind)
  /\ UNCHANGED <<webhook_url, credentials, session_manager, deliveries,
                 response>>
  /\ UNCHANGED <<sessVars, outsideRun>>

\* the completed payload sent without the guard of lines 137-142: a failure
\* of the send leaves the with block as an exception
DeliverCompletedUnguarded ==
  /\ run_pc = "deliver"
  /\ \/ /\ \/ UNCHANGED deliveries
           \/ \E delivered \in BOOLEAN :
                deliveries' =
                  Append(deliveries, Delivery("completed", delivered))
        /\ response' = Response(TRUE, "success")
        /\ run_pc' = "exit"
        /\ UNCHANGED <<pending_exc, fatal>>
     \/ /\ deliveries' = Append(deliveries, Delivery("completed", FALSE))
        /\ StepRaised("Exception")
        /\ UNCHANGED response
  /\ UNCHANGED <<webhook_url, credentials, session_manager, steps_done>>
  /\ UNCHANGED <<sessVars, outsideRun>>

\* lines 126-151: screenshot, transform and the completed payload, all
\* guarded; the payload is not sent when the transform raises
DeliverCompleted ==
  /\ run_pc = "deliver"
  /\ \/ UNCHANGED deliveries
     \/ \E delivered \in BOOLEAN :
          deliveries' = Append(deliveries, Delivery("completed", delivered))
  /\ response' = Response(TRUE, "success")
  /\ run_pc' = "exit"
  /\ UNCHANGED <<webhook_url, credentials, session_manager, pending_exc,
                 fatal, steps_done>>
  /\ UNCHANGED <<sessVars, outsideRun>>

\* line 85: leaving the with block calls __exit__, that is close
WithExit ==
  /\ run_pc = "exit"
  /\ close
  /\ run_pc' = (IF pending_exc = "none" THEN "finally" ELSE "handler")
  /\ UNCHANGED <<webhook_url, credentials, session_manager, pending_exc,
                 fatal, steps_done, deliveries, response>>
  /\ UNCHANGED <<calls, outsideRun>>

\* lines 153-219: the failed payload is sent under its own try, then the
\* response with success=False is returned
HandleException ==
  /\ run_pc = "handler"
  /\ IF ExceptClause(pending_exc) = "reraise"
     THEN /\ response' = RaisedOut(pending_exc)
          /\ UNCHANGED deliveries
     ELSE \E delivered \in BOOLEAN :
            /\ deliveries' = Append(deliveries, Delivery("failed", delivered))
            /\ response' = Response(FALSE, ExceptClause(pending_exc))
  /\ pending_exc' = "none"
  /\ run_pc' = "finally"
  /\ UNCHANGED <<webhook_url, credentials, session_manager, fatal, steps_done>>
  /\ UNCHANGED <<sessVars, outsideRun>>

\* lines 220-226: close once more if session_manager is bound
FinallyClose ==
  /\ run_pc = "finally"
  /\ IF session_manager = "bound"
     THEN close
     ELSE UNCHANGED <<sess_pc, service, retry_count, driver, self_driver,
                      self_wait, started, quit_called, quit_failed, last_call>>
  /\ run_pc' = "returned"
  /\ UNCHANGED <<webhook_url, credentials, session_manager, pending_exc,
                 fatal, steps_done, deliveries, response>>
  /\ UNCHANGED <<calls, outsideRun>>

login_and_navigate ==
  \/ ValidateWebhook
  \/ CheckCredentials
  \/ EnterSession
  \/ SessionEntered
  \/ SessionEnterRaised
  \/ WorkflowStep
  \/ ConfigureStep
  \/ DeliverCompleted
  \/ WithExit
  \/ HandleException
  \/ FinallyClose

\* a request arrives; the schema accepts any string, or none, as direction
InitRun ==
  /\ EngineInit /\ LocIdle /\ SessIdle /\ LoginIdle /\ MoreIdle
  /\ \E d \in StreetDirections : FiltersIdleWith(d)
  /\ RunIdleAt("start")
  /\ webhook_url \in {"None", "set"}
  /\ credentials \in BOOLEAN

NextRun == login_and_navigate \/ CreateDriver

SpecRun == InitRun /\ [][NextRun]_vars

\* the request handler runs to its return: nothing in it waits on another run
SpecRunFair == InitRun /\ [][NextRun]_vars /\ WF_vars(NextRun)

\* ------------------------------------------------ the serving event loop
\* login_and_navigate is a coroutine (api.py line 31) served by one event
\* loop: its blocking calls keep the loop, and only an await gives it back.
\* what a workflow step inside the with block can raise
WorkflowExceptions ==
  {"LoginError", "NavigationError", "ScraperError", "WebDriverException"}

\* the coroutine leaves the loop to another task
Suspend(r, at) ==
  /\ req_pc' = [req_pc EXCEPT ![r] = at]
  /\ loop_owner' = NoOwner

\* line 31: the loop starts the coroutine of a request that has arrived
Dispatch ==
  /\ loop_owner = NoOwner
  /\ \E r \in Requests :
       /\ req_pc[r] = "arrived"
       /\ req_pc' = [req_pc EXCEPT ![r] = "credentials"]
       /\ loop_owner' = r
  /\ UNCHANGED <<req_creds, req_exc, live>>
  /\ UNCHANGED outsideLoop

\* lines 60-68: without credentials the coroutine awaits the failed payload
CredentialsMissing ==
  /\ loop_owner # NoOwner
  /\ req_pc[loop_owner] = "credentials"
  /\ ~req_creds[loop_owner]
  /\ Suspend(loop_owner, "await_failed")
  /\ req_exc' = [req_exc EXCEPT ![loop_owner] = "MissingCredentials"]
  /\ UNCHANGED <<req_creds, live>>
  /\ UNCHANGED outsideLoop

\* line 85: with SessionManager() opens the browser session, or raises and
\* the handler of lines 185-208 awaits the failed payload
Acquire ==
  /\ loop_owner # NoOwner
  /\ req_pc[loop_owner] = "credentials"
  /\ req_creds[loop_owner]
  /\ \/ /\ live' = live \cup {loop_owner}
        /\ req_pc' = [req_pc EXCEPT ![loop_owner] = "workflow"]
        /\ UNCHANGED <<req_exc, loop_owner>>
     \/ /\ Suspend(loop_owner, "await_failed")
        /\ req_exc' = [req_exc EXCEPT ![loop_owner] = "SessionError"]
        /\ UNCHANGED live
  /\ UNCHANGED req_creds
  /\ UNCHANGED outsideLoop

\* lines 89-139: the blocking workflow runs to the await of line 139, still
\* inside the with block
WorkflowCompletes ==
  /\ loop_owner # NoOwner
  /\ req_pc[loop_owner] = "workflow"
  /\ Suspend(loop_owner, "await_completed")
  /\ UNCHANGED <<req_creds, req_exc, live>>
  /\ UNCHANGED outsideLoop

\* lines 89-121 raise: __exit__ closes the session, then the handler of
\* lines 153-208 awaits the failed payload
WorkflowRaises ==
  /\ loop_owner # NoOwner
  /\ req_pc[loop_owner] = "workflow"
  /\ \E exc \in WorkflowExceptions :
       req_exc' = [req_exc EXCEPT ![loop_owner] = exc]
  /\ live' = live \ {loop_owner}
  /\ Suspend(loop_owner, "await_failed")
  /\ UNCHANGED req_creds
  /\ UNCHANGED outsideLoop

\* lines 139-151 and 220-226: the await of line 139 is over; the return of
\* line 144 leaves the with block, which closes the session
ResumeCompleted ==
  /\ loop_owner = NoOwner
  /\ \E r \in Requests :
       /\ req_pc[r] = "await_completed"
       /\ req_pc' = [req_pc EXCEPT ![r] = "returned"]
       /\ live' = live \ {r}
  /\ UNCHANGED <<req_creds, req_exc, loop_owner>>
  /\ UNCHANGED outsideLoop

\* lines 68-79 and 157-226: the await of a failed payload is over
ResumeFailed ==
  /\ loop_owner = NoOwner
  /\ \E r \in Requests :
       /\ req_pc[r] = "await_failed"
       /\ req_pc' = [req_pc EXCEPT ![r] = "returned"]
  /\ UNCHANGED <<req_creds, req_exc, live, loop_owner>>
  /\ UNCHANGED outsideLoop

\* requests arrive while others are served
InitLoop ==
  /\ EngineInit /\ LocIdle /\ SessIdle /\ FiltersIdle /\ LoginIdle /\ RunIdle
  /\ AmountIdle /\ TransformIdle /\ PageIdle
  /\ \E creds \in [Requests -> BOOLEAN] : LoopIdleWith(creds)

NextLoop ==
  \/ Dispatch
  \/ CredentialsMissing
  \/ Acquire
  \/ WorkflowCompletes
  \/ WorkflowRaises
  \/ ResumeCompleted
  \/ ResumeFailed

SpecLoop == InitLoop /\ [][NextLoop]_vars

\* ------------------------------------------------------------ parse_amount
\* api.py lines 395-408.  An amount text is a string over AmountChars;
\* signs, exponents and upper-case letters are outside the alphabet.
MaxAmountLen == 3

AmountChars == {"$", ",", " ", ".", "0", "4", "9", "i", "n", "f", "a", "x"}
AmountTexts == UNION {[1..n -> AmountChars] : n \in 0..MaxAmountLen}

Digits == {"0", "4", "9"}
DigitValue == ("0" :> 0) @@ ("4" :> 4) @@ ("9" :> 9)

\* str.replace(old, ""): every occurrence of the character is removed
RECURSIVE replace(_, _)
replace(t, old) ==
  IF t = <<>> THEN <<>>
  ELSE IF Head(t) = old THEN replace(Tail(t), old)
  ELSE <<Head(t)>> \o replace(Tail(t), old)

\* the digits of t read as a decimal number
RECURSIVE DecimalValue(_)
DecimalValue(t) ==
  IF t = <<>> THEN 0
  ELSE 10 * DecimalValue(SubSeq(t, 1, Len(t) - 1)) + DigitValue[t[Len(t)]]

\* the part of t in front of its first point
RECURSIVE IntegerPart(_)
IntegerPart(t) ==
  IF t = <<>> \/ Head(t) = "." THEN <<>>
  ELSE <<Head(t)>> \o IntegerPart(Tail(t))

\* digits with at most one point and at least one digit
IsDecimal(t) ==
  /\ \A i \in 1..Len(t) : t[i] \in Digits \cup {"."}
  /\ Cardinality({i \in 1..Len(t) : t[i] = "."}) <= 1
  /\ \E i \in 1..Len(t) : t[i] \in Digits

\* float(cleaned): a finite value, inf, nan, or ValueError
float(t) ==
  IF IsDecimal(t) THEN [kind |-> "finite", trunc |-> DecimalValue(IntegerPart(t))]
  ELSE IF t = <<"i", "n", "f">> THEN [kind |-> "inf", trunc |-> 0]
  ELSE IF t = <<"n", "a", "n">> THEN [kind |-> "nan", trunc |-> 0]
  ELSE [kind |-> "ValueError", trunc |-> 0]

AmountValue(n) == [raised |-> "none", value |-> n]
AmountRaised(exc) == [raised |-> exc, value |-> 0]

\* line 404: int(float(cleaned)); int() raises OverflowError on inf and
\* ValueError on nan
IntOfFloat(t) ==
  IF float(t).kind = "finite" THEN AmountValue(float(t).trunc)
  ELSE IF float(t).kind = "inf" THEN AmountRaised("OverflowError")
  ELSE AmountRaised("ValueError")

\* lines 406-408: except (ValueError, AttributeError) returns 0
AmountHandler(out) ==
  IF out.raised \in {"ValueError", "AttributeError"} THEN AmountValue(0)
  ELSE out

\* line 402: the dollar signs, commas and blanks are removed
Cleaned(t) == strip(replace(replace(replace(t, "$"), ","), " "))

parse_amount(a) ==
  IF ~a.given \/ a.text = <<>> THEN AmountValue(0)
  ELSE IF Cleaned(a.text) = <<>> THEN AmountValue(0)
  ELSE AmountHandler(IntOfFloat(Cleaned(a.text)))

\* one call of parse_amount
ParseAmount ==
  /\ amount_out = AmountPending
  /\ amount_out' = parse_amount(amount_str)
  /\ UNCHANGED amount_str
  /\ UNCHANGED outsideAmount

InitAmount ==
  /\ EngineInit /\ LocIdle /\ SessIdle /\ FiltersIdle /\ LoginIdle /\ RunIdle
  /\ LoopIdle /\ TransformIdle /\ PageIdle
  /\ amount_str \in {Omitted} \cup {Given(t) : t \in AmountTexts}
  /\ amount_out = AmountPending

NextAmount == ParseAmount

SpecAmount == InitAmount /\ [][NextAmount]_vars

\* ------------------------------- transform_mortgage_data_to_webhook_format
\* api.py lines 344-461.  A date text is a triple of numbers with a
\* separator, a month name with a day and a year, or some other text.
MaxEvents == 2

DateFields == {1, 13, 2025}

MissingDate == [kind |-> "missing", sep |-> "", a |-> 0, b |-> 0, c |-> 0]
OtherDate == [kind |-> "other", sep |-> "", a |-> 0, b |-> 0, c |-> 0]

\* "1/13/2025", "2025-1-13", ... and "January 13, 2025", "Jan 13, 2025"
DateTexts ==
  [kind : {"numeric"}, sep : {"-", "/"},
   a : DateFields, b : DateFields, c : DateFields]
  \cup [kind : {"named"}, sep : {"B", "b"},
        a : {1}, b : DateFields, c : DateFields]
  \cup {OtherDate}

NoDate == [y |-> 0, m |-> 0, d |-> 0]

\* lines 374-382, in the order they are tried
date_formats ==
  << [kind |-> "numeric", sep |-> "-", order |-> <<"Y", "m", "d">>],
     [kind |-> "numeric", sep |-> "/", order |-> <<"m", "d", "Y">>],
     [kind |-> "numeric", sep |-> "-", order |-> <<"m", "d", "Y">>],
     [kind |-> "numeric", sep |-> "/", order |-> <<"d", "m", "Y">>],
     [kind |-> "numeric", sep |-> "/", order |-> <<"Y", "m", "d">>],
     [kind |-> "named", sep |-> "B", order |-> <<"m", "d", "Y">>],
     [kind |-> "named", sep |-> "b", order |-> <<"m", "d", "Y">>] >>

DaysIn(m, y) ==
  IF m = 2
  THEN IF y % 4 = 0 /\ (y % 100 # 0 \/ y % 400 = 0) THEN 29 ELSE 28
  ELSE IF m \in {4, 6, 9, 11} THEN 30 ELSE 31

\* the field of the text that the directive f of the format reads
FieldOf(fmt, text, f) ==
  <<text.a, text.b, text.c>>[CHOOSE i \in 1..3 : fmt.order[i] = f]

\* datetime.strptime(date_str, fmt): the date, or NoDate for ValueError
strptime(text, fmt) ==
  LET y == FieldOf(fmt, text, "Y")
      m == FieldOf(fmt, text, "m")
      day == FieldOf(fmt, text, "d")
  IN IF /\ text.kind = fmt.kind /\ text.sep = fmt.sep
        /\ y >= 1000
        /\ m \in 1..12
        /\ day \in 1..DaysIn(m, y)
     THEN [y |-> y, m |-> m, d |-> day]
     ELSE NoDate

\* lines 384-389: the first format that parses wins
RECURSIVE TryFormats(_, _)
TryFormats(text, i) ==
  IF i > Len(date_formats) THEN NoDate
  ELSE IF strptime(text, date_formats[i]) # NoDate
  THEN strptime(text, date_formats[i])
  ELSE TryFormats(text, i + 1)

parse_date(text) ==
  IF text = MissingDate THEN NoDate ELSE TryFormats(text, 1)

\* the texts one index of the three lists can hold
EventAmountTexts == {<<"4">>, <<"0">>, <<"x">>, <<"i", "n", "f">>}

EventAmounts == {Omitted} \cup {Given(t) : t \in EventAmountTexts}

Lenders == {Omitted, Given("Chase")}

Events ==
  [date : DateTexts \cup {MissingDate}, amount : EventAmounts, lender : Lenders]

\* lines 436-438: a missing or empty amount is 0 without a call
EventAmount(ev) ==
  IF ev.amount.given /\ ev.amount.text # <<>> THEN parse_amount(ev.amount)
  ELSE AmountValue(0)

ShouldEmitAlways(close_date, mortgage_amount) == TRUE

\* line 446: if close_date or mortgage_amount > 0
ShouldEmit(close_date, mortgage_amount) ==
  close_date # NoDate \/ mortgage_amount > 0

\* lines 447-457: the keys whose value is None are removed from the record
Record(unit, close_date, mortgage_amount, lender) ==
  [unit |-> unit, close_date |-> close_date,
   mortgage_amount |-> mortgage_amount, lender_name |-> lender]

\* lines 410-427: the next key; its data is None, or every list is empty,
\* or the longest list has n entries
TransformKey ==
  /\ xf_pc = "key"
  /\ xf_key < NumKeys
  /\ xf_key' = xf_key + 1
  /\ \E n \in 0..MaxEvents :
       /\ xf_len' = n
       /\ xf_pc' = (IF n = 0 THEN "key" ELSE "event")
  /\ xf_i' = 0
  /\ xf_event' = NoEvent
  /\ xf_record' = NoRecord
  /\ UNCHANGED outsideTransform

\* lines 429-459: one index of the lists of the key at hand
TransformEvent ==
  /\ xf_pc = "event"
  /\ \E ev \in Events :
       /\ xf_event' = ev
       /\ IF EventAmount(ev).raised # "none"
          THEN /\ xf_pc' = "raised"
               /\ xf_record' = NoRecord
               /\ UNCHANGED xf_i
          ELSE /\ xf_i' = xf_i + 1
               /\ xf_pc' = (IF xf_i + 1 < xf_len THEN "event" ELSE "key")
               /\ xf_record' =
                    (IF ShouldEmit(parse_date(ev.date), EventAmount(ev).value)
                     THEN Record(xf_key, parse_date(ev.date),
                                 EventAmount(ev).value, ev.lender)
                     ELSE NoRecord)
  /\ UNCHANGED <<xf_key, xf_len>>
  /\ UNCHANGED outsideTransform

\* line 461: return results
TransformReturns ==
  /\ xf_pc = "key"
  /\ xf_key = NumKeys
  /\ xf_pc' = "returned"
  /\ UNCHANGED <<xf_key, xf_len, xf_i, xf_event, xf_record>>
  /\ UNCHANGED outsideTransform

InitTransform ==
  /\ EngineInit /\ LocIdle /\ SessIdle /\ FiltersIdle /\ LoginIdle /\ RunIdle
  /\ LoopIdle /\ AmountIdle /\ PageIdle
  /\ TransformIdleAt("key")

NextTransform == TransformKey \/ TransformEvent \/ TransformReturns

SpecTransform == InitTransform /\ [][NextTransform]_vars

\* ------------------------------------------- _extract_mortgage_history
MaxTableRows == 3        \* tr elements of the table that was found
MaxCells == 3            \* td elements of one row, the header cell included

\* line 1235: the table needs its three rows
MinRows == 3

\* lines 1192-1222: the three waits, in the order of their nesting
table_selectors == <<"primary", "content", "generic">>

\* what a cell can show: nothing, blanks, a value, the text of a header
CellTexts == {"", " ", " x ", "Mortgage Date", "Mortgage Amount"}

\* str.strip on the texts above
strip_text(t) == CASE t = " " -> "" [] t = " x " -> "x" [] OTHER -> t

\* the header each of rows[0], rows[1], rows[2] is compared with
RowHeader == <<"Mortgage Date", "Mortgage Amount", "Mortgage Lender">>

\* an element of one of the three lists: the text the program appended, and
\* the column it was read from (the program keeps the text only)
Entry(col, text) == [col |-> col, text |-> text]

\* lines 1248-1251, 1256-1259, 1264-1267: the loop over cells[j-1:]
RECURSIVE KeptFrom(_, _, _)
KeptFrom(cells, header, j) ==
  IF j > Len(cells)
  THEN <<>>
  ELSE LET text == strip_text(cells[j])
       IN (IF text # "" /\ text # header THEN <<Entry(j, text)>> ELSE <<>>)
            \o KeptFrom(cells, header, j + 1)

\* cells[1:] skips the header cell
DataCells(cells, header) == KeptFrom(cells, header, 2)

ReturnsNone ==
  [kind |-> "returned", present |-> FALSE, mortgage_dates |-> <<>>,
   mortgage_amounts |-> <<>>, mortgage_lenders |-> <<>>]

History(dates, amounts, lenders) ==
  [kind |-> "returned", present |-> TRUE, mortgage_dates |-> dates,
   mortgage_amounts |-> amounts, mortgage_lenders |-> lenders]

ExtractResultEmptyRecord(dates, amounts, lenders) ==
  History(dates, amounts, lenders)

\* lines 1270-1284
ExtractResult(dates, amounts, lenders) ==
  IF dates = <<>> /\ amounts = <<>> /\ lenders = <<>>
  THEN ReturnsNone
  ELSE History(dates, amounts, lenders)

\* lines 1286-1291: both handlers return None
ExtractHandler(exc) == ReturnsNone

\* the function returns out
ExtractReturns(out) ==
  /\ ext_result' = out
  /\ ext_pc' = "done"

\* lines 1136-1189: the waits and the survey overlay are guarded; reading
\* current_url at line 1185 is not
PreparePage ==
  /\ ext_pc = "prepare"
  /\ \/ /\ ext_pc' = "find"
        /\ UNCHANGED ext_result
     \/ ExtractReturns(ExtractHandler("WebDriverException"))
  /\ UNCHANGED <<tried, mortgage_table, mortgage_dates, mortgage_amounts,
                 mortgage_lenders, outsideExtract>>

\* lines 1191-1226: the next wait of the nest; a timeout goes on to the next
\* selector, and after the last one returns None
TrySelector ==
  /\ ext_pc = "find"
  /\ Len(tried) < Len(table_selectors)
  /\ LET s == table_selectors[Len(tried) + 1]
     IN /\ tried' = Append(tried, s)
        /\ \E answer \in {"found", "TimeoutException", "WebDriverException"} :
             CASE answer = "found" ->
                    /\ mortgage_table' = s
                    /\ ext_pc' = "rows"
                    /\ UNCHANGED ext_result
               [] answer = "TimeoutException" ->
                    /\ UNCHANGED mortgage_table
                    /\ IF Len(tried') = Len(table_selectors)
                       THEN ExtractReturns(ReturnsNone)
                       ELSE UNCHANGED <<ext_pc, ext_result>>
               [] OTHER ->
                    /\ UNCHANGED mortgage_table
                    /\ ExtractReturns(ExtractHandler(answer))
  /\ UNCHANGED <<mortgage_dates, mortgage_amounts, mortgage_lenders,
                 outsideExtract>>

\* lines 1233-1238: the rows of the table
FindRows ==
  /\ ext_pc = "rows"
  /\ \/ \E n \in 0..MaxTableRows :
          IF n < MinRows
          THEN ExtractReturns(ReturnsNone)
          ELSE ext_pc' = "dates" /\ UNCHANGED ext_result
     \/ ExtractReturns(ExtractHandler("WebDriverException"))
  /\ UNCHANGED <<tried, mortgage_table, mortgage_dates, mortgage_amounts,
                 mortgage_lenders, outsideExtract>>

\* the cells one row of the table can have
RowCells == UNION {[1..n -> CellTexts] : n \in 0..MaxCells}

\* lines 1245-1251
ReadDates ==
  /\ ext_pc = "dates"
  /\ \/ \E cells \in RowCells :
          /\ mortgage_dates' = DataCells(cells, RowHeader[1])
          /\ ext_pc' = "amounts"
          /\ UNCHANGED ext_result
     \/ /\ ExtractReturns(ExtractHandler("StaleElementReferenceException"))
        /\ UNCHANGED mortgage_dates
  /\ UNCHANGED <<tried, mortgage_table, mortgage_amounts, mortgage_lenders,
                 outsideExtract>>

\* lines 1253-1259
ReadAmounts ==
  /\ ext_pc = "amounts"
  /\ \/ \E cells \in RowCells :
          /\ mortgage_amounts' = DataCells(cells, RowHeader[2])
          /\ ext_pc' = "lenders"
          /\ UNCHANGED ext_result
     \/ /\ ExtractReturns(ExtractHandler("StaleElementReferenceException"))
        /\ UNCHANGED mortgage_amounts
  /\ UNCHANGED <<tried, mortgage_table, mortgage_dates, mortgage_lenders,
                 outsideExtract>>

\* lines 1261-1267
ReadLenders ==
  /\ ext_pc = "lenders"
  /\ \/ \E cells \in RowCells :
          /\ mortgage_lenders' = DataCells(cells, RowHeader[3])
          /\ ext_pc' = "build"
          /\ UNCHANGED ext_result
     \/ /\ ExtractReturns(ExtractHandler("StaleElementReferenceException"))
        /\ UNCHANGED mortgage_lenders
  /\ UNCHANGED <<tried, mortgage_table, mortgage_dates, mortgage_amounts,
                 outsideExtract>>

\* lines 1269-1284
BuildResult ==
  /\ ext_pc = "build"
  /\ ExtractReturns(
       ExtractResult(mortgage_dates, mortgage_amounts, mortgage_lenders))
  /\ UNCHANGED <<tried, mortgage_table, mortgage_dates, mortgage_amounts,
                 mortgage_lenders, outsideExtract>>

InitExtract ==
  /\ EngineInit /\ LocIdle /\ SessIdle /\ FiltersIdle /\ LoginIdle /\ RunIdle
  /\ LoopIdle /\ AmountIdle /\ TransformIdle /\ MatrixIdle
  /\ ExtractIdleAt("prepare")

NextExtract ==
  \/ PreparePage
  \/ TrySelector
  \/ FindRows
  \/ ReadDates
  \/ ReadAmounts
  \/ ReadLenders
  \/ BuildResult

SpecExtract == InitExtract /\ [][NextExtract]_vars

\* ------------------------------------------------------ click_matrix_anchor
\* the tab the anchor (target=_blank) opens
NewTab == "matrix"

\* lines 318-322: the message of the second clause ends with str(e)
MatrixHandler(exc) ==
  IF exc = "ElementNotFoundError"
  THEN Raised("NavigationError", "Could not find Matrix anchor tag")
  ELSE Raised("NavigationError", exc)

\* an exception of kind exc reaches the handlers of lines 318-322
MatrixRaises(exc) ==
  /\ mx_result' = MatrixHandler(exc)
  /\ mx_pc' = "done"

\* lines 186-207: the locator finds the anchor, gives up, or lets a driver
\* error through; the scroll of line 206 may raise as well
FindAnchor ==
  /\ mx_pc = "find"
  /\ \E answer \in {"found", "ElementNotFoundError", "WebDriverException"} :
       IF answer = "found"
       THEN mx_pc' = "click" /\ UNCHANGED mx_result
       ELSE MatrixRaises(answer)
  /\ UNCHANGED <<window_handles, handles_at_click, mx_focus, opening, switched,
                 continue_button, continue_clicks, outsideMatrix>>

\* lines 211-213: the regular click; the browser opens the tab some time
\* later, or navigates in the same window
ClickAnchor ==
  /\ mx_pc = "click"
  /\ \/ /\ handles_at_click' = window_handles
        /\ opening' \in BOOLEAN
        /\ mx_pc' = "handles"
     \/ /\ mx_pc' = "script_click"
        /\ UNCHANGED <<handles_at_click, opening>>
  /\ UNCHANGED <<window_handles, mx_focus, switched, continue_button,
                 continue_clicks, mx_result, outsideMatrix>>

\* lines 214-217: the regular click raised, the click is made by script
ScriptClickAnchor ==
  /\ mx_pc = "script_click"
  /\ \/ /\ handles_at_click' = window_handles
        /\ opening' \in BOOLEAN
        /\ mx_pc' = "handles"
        /\ UNCHANGED mx_result
     \/ /\ MatrixRaises("JavascriptException")
        /\ UNCHANGED <<handles_at_click, opening>>
  /\ UNCHANGED <<window_handles, mx_focus, switched, continue_button,
                 continue_clicks, outsideMatrix>>

\* the browser opens the tab the click asked for
MatrixTabOpens ==
  /\ opening
  /\ mx_pc \notin {"idle", "find", "click", "done"}
  /\ window_handles' = Append(window_handles, NewTab)
  /\ opening' = FALSE
  /\ UNCHANGED <<mx_pc, handles_at_click, mx_focus, switched, continue_button,
                 continue_clicks, mx_result, outsideMatrix>>

\* lines 224-228, after the sleep of line 222
SwitchIfSeveral ==
  /\ mx_pc = "handles"
  /\ \/ /\ IF Len(window_handles) > 1
           THEN /\ mx_focus' = window_handles[Len(window_handles)]
                /\ switched' = TRUE
           ELSE UNCHANGED <<mx_focus, switched>>
        /\ mx_pc' = "body"
        /\ UNCHANGED mx_result
     \/ /\ MatrixRaises("NoSuchWindowException")
        /\ UNCHANGED <<mx_focus, switched>>
  /\ UNCHANGED <<window_handles, handles_at_click, opening, continue_button,
                 continue_clicks, outsideMatrix>>

\* lines 230-235: the wait for the body, a timeout is passed over
WaitForBody ==
  /\ mx_pc = "body"
  /\ \/ mx_pc' = "url" /\ UNCHANGED mx_result
     \/ MatrixRaises("WebDriverException")
  /\ UNCHANGED <<window_handles, handles_at_click, mx_focus, opening, switched,
                 continue_button, continue_clicks, outsideMatrix>>

\* lines 237-244: current_url is read twice, unguarded
ReadCurrentUrl ==
  /\ mx_pc = "url"
  /\ \/ mx_pc' = "redirect" /\ UNCHANGED mx_result
     \/ MatrixRaises("WebDriverException")
  /\ UNCHANGED <<window_handles, handles_at_click, mx_focus, opening, switched,
                 continue_button, continue_clicks, outsideMatrix>>

\* lines 246-260: the wait for the intermediate page, a timeout is passed over
WaitForRedirect ==
  /\ mx_pc = "redirect"
  /\ \/ mx_pc' = "conflict" /\ UNCHANGED mx_result
     \/ MatrixRaises("WebDriverException")
  /\ UNCHANGED <<window_handles, handles_at_click, mx_focus, opening, switched,
                 continue_button, continue_clicks, outsideMatrix>>

\* lines 262-275 and 307-310: no continue control is not an error
FindContinue ==
  /\ mx_pc = "conflict"
  /\ \E answer \in {"found", "ElementNotFoundError", "TimeoutException",
                    "WebDriverException"} :
       CASE answer = "found" ->
              /\ continue_button' = "found"
              /\ mx_pc' = "scroll"
              /\ UNCHANGED mx_result
         [] answer \in {"ElementNotFoundError", "TimeoutException"} ->
              /\ continue_button' = "absent"
              /\ mx_pc' = "return"
              /\ UNCHANGED mx_result
         [] OTHER ->
              /\ UNCHANGED continue_button
              /\ MatrixRaises(answer)
  /\ UNCHANGED <<window_handles, handles_at_click, mx_focus, opening, switched,
                 continue_clicks, outsideMatrix>>

\* lines 277-282: the control is scrolled into view
ScrollToContinue ==
  /\ mx_pc = "scroll"
  /\ \/ mx_pc' = "continue" /\ UNCHANGED mx_result
     \/ MatrixRaises("StaleElementReferenceException")
  /\ UNCHANGED <<window_handles, handles_at_click, mx_focus, opening, switched,
                 continue_button, continue_clicks, outsideMatrix>>

\* lines 284-286: the regular click. The control posts the form back, so the
\* click waits for the page load and can raise after the browser got it
\* (dispatched).
ClickContinue ==
  /\ mx_pc = "continue"
  /\ \/ /\ continue_clicks' = continue_clicks + 1
        /\ mx_pc' = "after"
     \/ \E dispatched \in BOOLEAN :
          /\ continue_clicks' = continue_clicks + (IF dispatched THEN 1 ELSE 0)
          /\ mx_pc' = "script_continue"
  /\ UNCHANGED <<window_handles, handles_at_click, mx_focus, opening, switched,
                 continue_button, mx_result, outsideMatrix>>

\* lines 287-290: the regular click raised, the click is made by script
ScriptClickContinue ==
  /\ mx_pc = "script_continue"
  /\ \/ /\ continue_clicks' = continue_clicks + 1
        /\ mx_pc' = "after"
        /\ UNCHANGED mx_result
     \/ /\ MatrixRaises("JavascriptException")
        /\ UNCHANGED continue_clicks
  /\ UNCHANGED <<window_handles, handles_at_click, mx_focus, opening, switched,
                 continue_button, outsideMatrix>>

\* lines 292-305
AfterContinue ==
  /\ mx_pc = "after"
  /\ \/ mx_pc' = "return" /\ UNCHANGED mx_result
     \/ MatrixRaises("WebDriverException")
  /\ UNCHANGED <<window_handles, handles_at_click, mx_focus, opening, switched,
                 continue_button, continue_clicks, outsideMatrix>>

\* lines 312-316: the URL of the window that has the focus
ReturnUrl ==
  /\ mx_pc = "return"
  /\ \/ mx_result' = Returned(mx_focus) /\ mx_pc' = "done"
     \/ MatrixRaises("NoSuchWindowException")
  /\ UNCHANGED <<window_handles, handles_at_click, mx_focus, opening, switched,
                 continue_button, continue_clicks, outsideMatrix>>

click_matrix_anchor ==
  \/ FindAnchor
  \/ ClickAnchor
  \/ ScriptClickAnchor
  \/ SwitchIfSeveral
  \/ WaitForBody
  \/ ReadCurrentUrl
  \/ WaitForRedirect
  \/ FindContinue
  \/ ScrollToContinue
  \/ ClickContinue
  \/ ScriptClickContinue
  \/ AfterContinue
  \/ ReturnUrl

InitMatrix ==
  /\ EngineInit /\ LocIdle /\ SessIdle /\ FiltersIdle /\ LoginIdle /\ RunIdle
  /\ LoopIdle /\ AmountIdle /\ TransformIdle /\ ExtractIdle
  /\ MatrixIdleAt("find")

NextMatrix == click_matrix_anchor \/ MatrixTabOpens

SpecMatrix == InitMatrix /\ [][NextMatrix]_vars

\* ---------------------------------------------------------- specifications
Init == EngineInit /\ LocIdle /\ RestIdle

Next == Collecting \/ Harvesting \/ Browser

Spec == Init /\ [][Next]_vars

\* ------------------------------------------- collection of a whole listing
\* A listing of MaxPages pages whose pages all carry an enabled Next control
\* except the last, on a browser that raises nothing: lines 938-941 are
\* reached on the last page only.
FinalPage ==
  /\ page_number = MaxPages
  /\ LastPage

NextPaged ==
  \/ FindLinks
  \/ NoLinksOnPage
  \/ ScanRow
  \/ NextPage
  \/ FinalPage
  \/ ReturnEmpty
  \/ StartHarvesting

\* the call is not suspended for ever: each statement is followed by the next
SpecPaged == Init /\ [][NextPaged]_vars /\ WF_vars(NextPaged)

\* ------------------------------------------------------------------ claims
DistinctKeys(info) ==
  \A i, j \in 1..Len(info) : i # j => info[i].ml_number # info[j].ml_number

StrictlyIncreasing(log) ==
  \A i, j \in 1..Len(log) : i < j => log[i] < log[j]

PhaseRank(p) ==
  IF p = "COLLECTING" THEN 1 ELSE IF p = "HARVESTING" THEN 2 ELSE 3

\* the loop of line 957 goes on after the current identifier
LoopGoesOn ==
  IF idx < Len(all_ml_info)
  THEN idx' = idx + 1 /\ pc' = "switch_anchor" /\ phase' = "HARVESTING"
  ELSE pc' = "done" /\ status' = "returned"

\* steps of one iteration in which a driver call raised
AnchorSwitchRaised ==
  /\ pc = "switch_anchor"
  /\ results_window \notin windows
  /\ ~UNCHANGED <<pc, idx, outcome>>
LinkStepRaised ==
  pc \in {"refind", "click", "check1", "switch_new"} /\ outcome'[idx] = "skipped"
HandlerRan ==
  pc = "settle" /\ outcome'[idx] = "exception"
CloseStepRaised ==
  pc = "close" /\ pc' # pc /\ (windows' = windows \/ results_window \notin windows')

\* C1: when the engine returns, the keys of the Result Set are exactly the
\* record keys of the collected identifiers.
C1_Completeness ==
  status = "returned" => DOMAIN all_data = CollectedKeys(all_ml_info)

C1_Witness ==
  /\ status = "returned"
  /\ Len(all_ml_info) = 2
  /\ outcome[1] = "skipped"
  /\ outcome[2] = "exception"

\* C2: during HARVESTING a key that maps to a present record is never set
\* back to absent by a later step.
C2_NonOverwrite ==
  [][\A k \in DOMAIN all_data :
       (phase = "HARVESTING" /\ all_data[k].present) => all_data'[k].present]_vars

\* C3: with pairwise distinct record keys, the returned Result Set maps a key
\* to a present record exactly when the extraction for its identifier
\* returned data, and to absent for every identifier that failed.
C3_PartialFailure ==
  (status = "returned" /\ DistinctKeys(all_ml_info)) =>
    \A i \in 1..Len(all_ml_info) :
      all_data[all_ml_info[i].ml_number].present <=> outcome[i] = "ok"

C3_Witness ==
  /\ status = "returned"
  /\ Anchor \in windows
  /\ Len(all_ml_info) = 2
  /\ DistinctKeys(all_ml_info)
  /\ outcome[1] = "no_data"
  /\ outcome[2] = "ok"
  /\ ~all_data[all_ml_info[1].ml_number].present
  /\ all_data[all_ml_info[2].ml_number].present

\* C4: the phase only moves forward, nothing is clicked while COLLECTING, the
\* collected list is frozen once COLLECTING is over, and links are clicked in
\* collection order.
C4_ForwardOnly ==
  [][/\ PhaseRank(phase') >= PhaseRank(phase)
     /\ phase # "COLLECTING" => all_ml_info' = all_ml_info
     /\ click_log' # click_log => phase = "HARVESTING" /\ phase' # "COLLECTING"
     /\ StrictlyIncreasing(click_log')
     /\ idx' >= idx]_vars

C4_Witness ==
  /\ phase = "DONE"
  /\ page_number = 2
  /\ click_log = <<1, 2>>

\* C5 as claimed: whichever driver call of an iteration raises, the
\* identifier ends absent and the loop goes on to the next identifier.
C5_AnyExceptionContained ==
  [][(AnchorSwitchRaised \/ LinkStepRaised \/ HandlerRan \/ CloseStepRaised) =>
       (~all_data'[ml_number].present /\ LoopGoesOn)]_vars

\* C5 amended: an exception inside an iteration never leaves the engine and,
\* unless it is the failed switch to the results window of lines 965-970,
\* the loop goes on to the next identifier; the entry is set to absent when
\* the per-identifier handler of line 1103 catches it, and is left as it was
\* when the link steps or the closing of the tab raise.
C5_ExceptionContained ==
  [][/\ (LinkStepRaised \/ HandlerRan \/ CloseStepRaised) => LoopGoesOn
     /\ HandlerRan => all_data'[ml_number] = None
     /\ (LinkStepRaised \/ CloseStepRaised) => all_data' = all_data
     /\ status' # "raised"]_vars

C5_Witness ==
  /\ Len(all_ml_info) = 2
  /\ outcome[1] = "exception"
  /\ idx = 2
  /\ pc = "click"

\* C6: at the start of an iteration and at the return, no tab the engine
\* switched to is still open and the focus is on the results window (stated
\* for the runs in which the results window still exists).
C6_TabsClosedFocusRestored ==
  ((pc = "switch_anchor" \/ pc = "done") /\ results_window \in windows) =>
    (entered \cap windows = {} /\ focus = results_window)

\* C7: when the switch to the results window fails, the loop ends at once:
\* all_data is returned as it is, with every collected key, and neither this
\* identifier nor a later one is processed.
C7_AbortKeepsResults ==
  /\ [][AnchorSwitchRaised =>
          /\ all_data' = all_data
          /\ pc' = "done" /\ status' = "returned"
          /\ click_log' = click_log
          /\ DOMAIN all_data' = CollectedKeys(all_ml_info')]_vars
  /\ [](\A i \in 1..Len(all_ml_info) :
          outcome[i] = "aborted" =>
            /\ pc = "done"
            /\ \A j \in (i + 1)..Len(all_ml_info) : outcome[j] = "none"
            /\ \A n \in 1..Len(click_log) : click_log[n] < i)

C7_Witness ==
  /\ pc = "done"
  /\ Len(all_ml_info) = 2
  /\ outcome[1] = "ok"
  /\ outcome[2] = "aborted"
  /\ all_data[all_ml_info[1].ml_number].present

\* C8: no exception leaves the engine; when the outer handler of line 1119
\* ran, the engine returned and every identifier collected so far has an
\* absent entry.
C8_NeverRaises ==
  /\ status # "raised"
  /\ fault # "none" =>
       /\ status = "returned"
       /\ \A i \in 1..Len(all_ml_info) :
            /\ all_ml_info[i].ml_number \in DOMAIN all_data
            /\ ~all_data[all_ml_info[i].ml_number].present

C8_Witness ==
  /\ fault = "collecting"
  /\ page_number = 2
  /\ Len(all_ml_info) = 2

\* the first strategy of the list that the page matches, NoMatch if none
FirstFound(sel) ==
  IF \E j \in 1..Len(sel) : sel[j] = "found"
  THEN CHOOSE j \in 1..Len(sel) :
         sel[j] = "found" /\ \A m \in 1..(j - 1) : sel[m] # "found"
  ELSE NoMatch

\* C9: strategies are tried left to right, each at most once; the element
\* returned is the one of the first matching strategy and nothing after it is
\* tried; when the strategies before the first match all time out, that
\* element is returned.
C9_FirstMatchWins ==
  /\ \A n \in 1..Len(attempts) : attempts[n] = n
  /\ loc_result.kind = "element" =>
       /\ loc_result.at = FirstFound(selectors)
       /\ Len(attempts) = loc_result.at
  /\ (/\ loc_result # NoResult
      /\ FirstFound(selectors) # NoMatch
      /\ \A m \in 1..(FirstFound(selectors) - 1) : selectors[m] = "timeout") =>
       loc_result = Element(FirstFound(selectors))

C9_Witness ==
  /\ selectors = <<"timeout", "timeout", "found", "found">>
  /\ loc_result = Element(3)
  /\ attempts = <<1, 2, 3>>

\* C10: the locator ends in ElementNotFoundError exactly when every strategy
\* of the list timed out, and the error carries the whole list.
C10_NotFoundIffAllTimedOut ==
  loc_result # NoResult =>
    /\ loc_result.kind = "ElementNotFoundError" <=>
         \A j \in 1..Len(selectors) : selectors[j] = "timeout"
    /\ loc_result.kind = "ElementNotFoundError" =>
         /\ loc_result.carried = selectors
         /\ Len(attempts) = Len(selectors)

C10_Witness ==
  /\ loc_result.kind = "ElementNotFoundError"
  /\ Len(selectors) = 3
  /\ attempts = <<1, 2, 3>>

\* a call of create_driver that ended in an exception
CreateDriverFailed ==
  /\ last_call.op = "create_driver"
  /\ last_call.result \notin {"running", "returned"}

\* the checkbox states the form is meant to end in
Target ==
  [c \in StatusCheckboxes |-> c = "closed"]

\* the trimmed, upper-cased street_direction is one of the eight directions
InDirectionSet(d) ==
  d.given /\ strip(upper(d.text)) \in DOMAIN STREET_DIRECTION_MAP

RequiredSteps ==
  StatusCheckboxes \cup
    {"street_number", "street_direction", "street_name", "results"}

Range(q) == {q[i] : i \in 1..Len(q)}

\* C11: whatever the manager's state and whatever calls came before, close
\* returns without raising, also when quit() raises, and leaves the manager
\* with no driver and no wait handle.
C11_CloseIdempotentTotal ==
  last_call.op = "close" =>
    /\ last_call.result = "returned"
    /\ self_driver = NoDriver
    /\ self_wait = NoDriver

\* close on a manager already released by a close whose quit() raised
C11_Witness ==
  /\ last_call = Call("close", "returned", "none")
  /\ quit_failed # {}

\* C12: when the top-level operation is over, every browser started during
\* the run has had quit() called on it.
C12_BrowsersTerminated ==
  run_pc = "returned" => started \subseteq quit_called

\* C13: a failed create_driver ends in SessionError, with driver and wait
\* unset and with no browser it started still not quit.
C13_FailureLeavesNothing ==
  CreateDriverFailed =>
    /\ last_call.result = "SessionError"
    /\ self_driver = NoDriver
    /\ self_wait = NoDriver
    /\ started \subseteq quit_called

\* C14: login ends by returning True or by raising LoginError, whatever
\* went wrong inside it.
C14_TrueOrLoginError ==
  IF login_pc = "done"
  THEN login_result.kind \in {"True", "LoginError"}
  ELSE login_result = NoOutcome

\* a driver exception after the submit left login as LoginError
C14_Witness ==
  /\ login_pc = "done"
  /\ submitted /\ driver_fault
  /\ login_result.kind = "LoginError"

\* C15: once the button is clicked, and with no driver call raising, login
\* returns True exactly when a poll of the wait saw the URL off the login
\* path or a marker, or the wait timed out and the URL read then is off the
\* login path; a timeout with the URL still on the login path raises
\* LoginError with the text of the inline error if one is there and the
\* still-on-login-page message otherwise.
C15_SuccessDetection ==
  (login_pc = "done" /\ submitted /\ ~driver_fault) =>
    /\ login_result.kind = "True" <=>
         \/ seen_off_login
         \/ seen_marker
         \/ timed_out /\ url_after = "elsewhere"
    /\ (timed_out /\ url_after = "login") =>
         /\ login_result.kind = "LoginError"
         /\ IF error_seen # <<>>
            THEN Head(error_seen) \in Range(login_result.message)
            ELSE "Login failed: Still on login page after attempt"
                   \in Range(login_result.message)

\* a marker showed up while the URL stayed on the login path
C15_Witness ==
  /\ login_pc = "done"
  /\ ~driver_fault
  /\ seen_marker /\ ~seen_off_login
  /\ login_result = True

\* C16: a street_direction, omitted ones included, whose trimmed upper-cased
\* form is not one of N, NE, E, SE, S, SW, W, NW makes the call fail with
\* NavigationError before any page interaction; every other value is
\* accepted and mapped to its fixed code.
C16_DirectionValidated ==
  cfg_pc \notin {"idle", "validate"} =>
    IF InDirectionSet(street_direction)
    THEN /\ failed_at.step # "validate"
         /\ direction_value =
              STREET_DIRECTION_MAP[strip(upper(street_direction.text))]
    ELSE /\ cfg_result.kind = "NavigationError"
         /\ touched = {}

\* C17: for a request whose street_direction is a string outside the eight
\* directions no session is acquired and no step is started.
C17_MalformedRejectedEarly ==
  (street_direction.given /\ ~InDirectionSet(street_direction)) =>
    /\ steps_done = <<>>
    /\ started = {}

\* C18: a status checkbox whose step is over was clicked exactly when its
\* state differed from the target, and is in its target state; once the four
\* steps are over Active, Coming Soon and Active With Contract are unchecked
\* and Closed is checked.
C18_CheckboxesReachTarget ==
  /\ \A c \in StatusCheckboxes :
       IF c \in processed
       THEN /\ clicks[c] = (IF checked0[c] # Target[c] THEN 1 ELSE 0)
            /\ checked[c] = Target[c]
       ELSE clicks[c] = 0
  /\ processed = StatusCheckboxes => checked = Target

\* the four steps are over, and all four checkboxes had to be clicked
C18_Witness ==
  /\ processed = StatusCheckboxes
  /\ \A c \in StatusCheckboxes : clicks[c] = 1

\* C19: an exception of either optional dropdown never ends the call: with
\* no required step failing the Results control is clicked and a URL is
\* returned; when the locator fails for a required element the call raises
\* NavigationError and the Results control has not been clicked.
C19_OptionalSwallowedRequiredFatal ==
  /\ failed_at.step \notin {"type_of_property", "financing"}
  /\ (cfg_pc = "done" /\ failed_at = NoFailure) =>
       /\ cfg_result.kind = "url"
       /\ results_clicked
  /\ (failed_at.step \in RequiredSteps
        /\ failed_at.exc = "ElementNotFoundError") =>
       /\ cfg_result =
            Raised("NavigationError", "Could not find form element")
       /\ ~results_clicked

\* both optional dropdowns failed and the call still returned a URL
C19_Witness ==
  /\ swallowed = {"type_of_property", "financing"}
  /\ cfg_result.kind = "url"
  /\ results_clicked

\* C20: a run ended by a fatal error has attempted a failed payload and
\* returns a response with success=false; the operation raises only the
\* HTTP 400 of a missing webhook URL, before any delivery.
C20_FatalErrorsReported ==
  /\ (run_pc = "returned" /\ fatal # "none") =>
       /\ response.kind = "returned"
       /\ ~response.success
       /\ \E i \in 1..Len(deliveries) : deliveries[i].status = "failed"
  /\ response.kind = "raised" => deliveries = <<>>

\* an exception that is no ScraperError ended the run and the failed payload
\* could not be delivered
C20_Witness ==
  /\ run_pc = "returned"
  /\ fatal = "AttributeError"
  /\ deliveries = <<Delivery("failed", FALSE)>>
  /\ response = Response(FALSE, "Unexpected error")

\* the workflow steps of one run, in the order of the with block
RunOrder == <<"acquire", "login", "matrix", "menu", "configure", "extract">>

IsPrefix(s, t) == Len(s) <= Len(t) /\ \A i \in 1..Len(s) : s[i] = t[i]

\* the run is past its last workflow step
RunLeftSteps == run_pc \in {"deliver", "exit", "handler", "finally", "returned"}

\* C21 (steps): the steps of a run are started in the fixed order, each at
\* most once, and none is started once a step has failed.
C21_StepsInOrder ==
  /\ IsPrefix(steps_done, RunOrder)
  /\ fatal # "none" => RunLeftSteps

\* C21: the steps of a run are started in the fixed order, each at most
\* once, none after a failed one, and once the run is over the browser that
\* the acquire step started has been released, whatever the last step's
\* outcome.
C21_OrderedStepsThenRelease ==
  /\ C21_StepsInOrder
  /\ (run_pc = "returned" /\ steps_done # <<>>) => started \subseteq quit_called

\* C22: at no moment are two browser sessions open: a second request does
\* not open its session before the first has closed its own, also while
\* the first awaits the delivery of its results.
C22_OneSessionAtATime ==
  Cardinality(live) <= 1

\* the event just transformed has a date text that no format parses
DateUnparseable ==
  /\ xf_event # NoEvent
  /\ xf_event.date # MissingDate
  /\ parse_date(xf_event.date) = NoDate

Numeric(a) == a.given /\ IsDecimal(Cleaned(a.text))

\* C24 (finite): apart from the texts that read as infinity, parse_amount
\* returns the truncated value of a numeric text and 0 for any other.
C24_FiniteAmounts ==
  (amount_out # AmountPending /\ Cleaned(amount_str.text) # <<"i", "n", "f">>) =>
    /\ amount_out.raised = "none"
    /\ amount_out.value =
         (IF Numeric(amount_str)
          THEN DecimalValue(IntegerPart(Cleaned(amount_str.text))) ELSE 0)

\* C24: for every amount text parse_amount returns an integer and does not
\* raise; a text that is not numeric, the non-finite numerals included,
\* yields 0.
C24_AmountTotal ==
  amount_out # AmountPending =>
    /\ amount_out.raised = "none"
    /\ amount_out.value \in Nat
    /\ ~Numeric(amount_str) => amount_out.value = 0

\* one row has just been scanned
RowScanned == pc = "scan_rows" /\ rows_left' = rows_left - 1

\* the collected list has no two entries with the same pair
DistinctPairs(info) ==
  \A i, j \in 1..Len(info) : i # j => info[i] # info[j]

\* C25: the collected list never holds the same (ML number, ikey) pair
\* twice; a row adds its pair at the end of the list exactly when the pair
\* is read for the first time, and never moves or removes an entry, so the
\* list is in first-occurrence order; pairs sharing the ML number and
\* differing in the ikey are all kept.
C25_DedupByPairInOrder ==
  /\ [](DistinctPairs(all_ml_info))
  /\ [](scanned.skipped = "no" =>
          MlInfo(scanned.ml_number, scanned.ikey) \in Range(all_ml_info))
  /\ [][RowScanned =>
          IF /\ scanned'.skipped = "no"
             /\ MlInfo(scanned'.ml_number, scanned'.ikey) \notin Range(all_ml_info)
          THEN all_ml_info' =
                 Append(all_ml_info, MlInfo(scanned'.ml_number, scanned'.ikey))
          ELSE all_ml_info' = all_ml_info]_vars
  /\ [][~RowScanned => all_ml_info' = all_ml_info]_vars

C25_Witness ==
  /\ Len(all_ml_info) = 2
  /\ all_ml_info[1].ml_number = all_ml_info[2].ml_number
  /\ all_ml_info[1].ikey # all_ml_info[2].ikey
  /\ scanned.skipped = "no"
  /\ scanned.ikey = all_ml_info[1].ikey
  /\ page_number = 2

\* C26: a row without link, ikey or ML number, or whose processing raises,
\* adds nothing to the collected list and does not end the scan: the page
\* and its remaining rows stay at hand and the call goes on.
C26_BadRowSkippedScanGoesOn ==
  [][(RowScanned /\ scanned'.skipped # "no") =>
       /\ all_ml_info' = all_ml_info
       /\ pc' = "scan_rows"
       /\ page_number' = page_number
       /\ phase' = "COLLECTING"
       /\ status' = "running"]_vars

C26_Witness ==
  /\ scanned.skipped \in {"no_ikey", "no_ml_number", "raised"}
  /\ pc = "scan_rows"
  /\ rows_left = 1
  /\ page_number = 1

\* C27: on a listing whose last page alone lacks an enabled Next control,
\* collection ends only after every page up to the last has been scanned,
\* and it does end.
C27_EveryPageScanned ==
  <>(pc \in {"collected", "record_anchor", "done"} /\ page_number = MaxPages)

\* the re-location of lines 973-978 has just failed
RefindFailed == pc = "refind" /\ pc' \notin {"refind", "click"}

\* the for loop of line 957 has moved on, to the next identifier if any
LoopMovedOn ==
  IF idx < Len(all_ml_info)
  THEN idx' = idx + 1 /\ pc' = "switch_anchor" /\ status' = "running"
  ELSE pc' = "done" /\ status' = "returned"

\* C28: when the detail link is not found again by its ikey, the iteration
\* clicks nothing, opens and closes no window, leaves all_data and the focus
\* as they are, and the loop moves on to the next identifier.
C28_RefindFailureIsFrameNeutral ==
  [][RefindFailed =>
       /\ idx \notin Range(click_log')
       /\ pending' = pending
       /\ windows' = windows
       /\ entered' = entered
       /\ all_data' = all_data
       /\ focus' = focus
       /\ outcome'[idx] = "skipped"
       /\ LoopMovedOn]_vars

C28_Witness ==
  /\ outcome[1] = "skipped"
  /\ click_log = <<>>
  /\ idx = 2
  /\ pc = "switch_anchor"
  /\ windows = {Anchor}
  /\ focus = Anchor
  /\ all_data[all_ml_info[1].ml_number] = None

\* the engine is between the click and the switch to the new tab
LookingForTab == pc \in {"check1", "check2", "switch_new"}

\* C29: after the click the window handles are compared with the pre-click
\* set at most twice; a step that gives up skips the identifier with the
\* focus still on the results window and all_data untouched, and a step
\* that switches moves the focus to a handle that is not in the pre-click
\* set.
C29_NewTabCheckedTwiceAtMost ==
  /\ [](LookingForTab => focus = results_window)
  /\ [][LookingForTab =>
          \/ /\ pc = "check1"
             /\ pc' = (IF windows \ windows_before = {} THEN "check2"
                                                         ELSE "switch_new")
             /\ UNCHANGED <<focus, all_data, idx, outcome>>
          \/ /\ pc = "check2"
             /\ windows \ windows_before # {}
             /\ pc' = "switch_new"
             /\ UNCHANGED <<focus, all_data, idx, outcome>>
          \/ /\ pc = "switch_new"
             /\ pc' = "settle"
             /\ focus' \in windows \ windows_before
             /\ UNCHANGED <<all_data, idx, outcome>>
          \/ /\ outcome'[idx] = "skipped"
             /\ LoopMovedOn
             /\ UNCHANGED <<focus, all_data>>
          \/ UNCHANGED <<pc, focus, all_data, idx, outcome>>]_vars

C29_Witness ==
  /\ Len(all_ml_info) = 2
  /\ outcome[1] = "skipped"
  /\ click_log = <<1, 2>>
  /\ idx = 2
  /\ pc = "settle"
  /\ focus \in windows \ windows_before
  /\ all_data[all_ml_info[1].ml_number] = None

\* the no-data branch of lines 1038-1056 is leaving its iteration
NoDataBranchEnds == pc = "no_data" /\ pc' # "no_data"

\* C30 (normal path): when close() and the switch back both succeed, the
\* no-data branch leaves the entry None, the tab closed and the focus on
\* the results window, and extraction is never entered.
C30_NoDataPathWhenCloseSucceeds ==
  /\ [](pc = "no_data" => all_data[ml_number] = None)
  /\ [][NoDataBranchEnds =>
          /\ pc' # "extract"
          /\ all_data'[ml_number] = None
          /\ outcome'[idx] = "no_data" =>
               (focus \notin windows' /\ focus' = results_window)]_vars

\* C30: on a not-found or re-authentication URL no extraction is attempted,
\* the entry is None, and the detail tab is closed and the focus back on the
\* results window before the next identifier is taken (stated for the runs
\* in which the results window still exists).
C30_NoDataTabClosedFocusBack ==
  /\ [](pc = "no_data" => all_data[ml_number] = None)
  /\ [][NoDataBranchEnds =>
          /\ pc' # "extract"
          /\ all_data'[ml_number] = None
          /\ results_window \in windows' =>
               (focus \notin windows' /\ focus' = results_window)]_vars

\* C36: a record stored under a key was read from the tab that the click of
\* an identifier with that key opened, never from a tab that another
\* identifier's click opened.
C36_RecordFromOwnTab ==
  \A k \in DOMAIN all_data :
    all_data[k].present =>
      \E i \in 1..Len(all_ml_info) :
        all_ml_info[i].ml_number = k /\ all_data[k].src = Tab(i)

\* C37: one run attempts at most one payload, and the payload agrees with the
\* response: a completed payload goes with success=true, a failed payload with
\* success=false, and a run never attempts both.
C37_OnePayloadAgreesWithResponse ==
  /\ Len(deliveries) <= 1
  /\ \A i \in 1..Len(deliveries) :
       /\ response.kind = "returned"
       /\ deliveries[i].status = "completed" <=> response.success
       /\ deliveries[i].status = "failed" <=> ~response.success

C37_Witness ==
  /\ run_pc = "returned"
  /\ steps_done = <<"acquire", "login", "matrix", "menu", "configure",
                    "extract">>
  /\ deliveries = <<Delivery("completed", TRUE)>>
  /\ response = Response(TRUE, "success")

\* a step of close that invokes quit on the browser (line 224)
QuitInvoked ==
  /\ last_call' # last_call \/ run_pc' # run_pc
  /\ last_call'.op = "close" /\ last_call'.quit # "none"
  /\ run_pc \in {"exit", "finally"}

\* the run has acquired the browser: __enter__ of line 85 returned
Acquired == session_manager = "bound"

\* C38: a run that acquired the browser invokes quit on it exactly once,
\* although close is called by the scoped exit and again by the finally block;
\* a run that never acquired it never invokes quit.
C38_QuitExactlyOnceIfAcquired ==
  /\ [](run_pc = "returned" =>
          IF Acquired
          THEN Cardinality(started) = 1 /\ quit_called = started
          ELSE quit_called = {})
  /\ [][QuitInvoked => self_driver \notin quit_called]_vars
  /\ [][run_pc = "finally" /\ Acquired => ~QuitInvoked]_vars
  /\ (Acquired ~> (run_pc = "returned" /\ quit_called = started))

\* both calls of close were made and the one quit had raised
C38_Witness ==
  /\ run_pc = "returned"
  /\ Acquired
  /\ quit_called = {Chrome(1)} /\ quit_failed = {Chrome(1)}
  /\ last_call = Call("close", "returned", "none")

\* C35: a navigation step ends, for every input and page behaviour, by
\* returning a URL or by raising NavigationError; no other exception type
\* leaves it (here the search configuration step).
C35_OnlyNavigationErrorEscapes ==
  cfg_result.kind \in {"none", "url", "NavigationError"}

\* C31: the extraction of one detail page never raises and returns either
\* nothing or a record with some non-empty list; it returns nothing when all
\* three table selectors fail and when all three lists are empty; the
\* selectors are tried in the order primary, content-based, generic, and no
\* selector is tried after one has matched.
C31_ExtractionTotalSelectorsInOrder ==
  /\ ext_pc = "done" <=> ext_result.kind = "returned"
  /\ ext_result.kind \in {"pending", "returned"}
  /\ ext_result.present =>
       \/ ext_result.mortgage_dates # <<>>
       \/ ext_result.mortgage_amounts # <<>>
       \/ ext_result.mortgage_lenders # <<>>
  /\ ext_pc = "done" /\ mortgage_table = "None" => ~ext_result.present
  /\ tried = SubSeq(table_selectors, 1, Len(tried))
  /\ mortgage_table # "None" =>
       tried # <<>> /\ mortgage_table = tried[Len(tried)]
  /\ ext_pc \notin {"prepare", "find", "done"} => mortgage_table # "None"

\* the generic selector matched after the other two timed out, and a record
\* with dates only was returned
C31_Witness ==
  /\ ext_pc = "done"
  /\ tried = table_selectors
  /\ mortgage_table = "generic"
  /\ ext_result.present
  /\ ext_result.mortgage_dates # <<>>
  /\ ext_result.mortgage_amounts = <<>>
  /\ ext_result.mortgage_lenders = <<>>

\* C32: in every record the extraction returns, the dates, amounts and
\* lenders lists have the same length and position i of each was read from
\* the same column of the table.
C32_ListsParallel ==
  ext_result.present =>
    /\ Len(ext_result.mortgage_dates) = Len(ext_result.mortgage_amounts)
    /\ Len(ext_result.mortgage_amounts) = Len(ext_result.mortgage_lenders)
    /\ \A i \in 1..Len(ext_result.mortgage_dates) :
         /\ ext_result.mortgage_dates[i].col = ext_result.mortgage_amounts[i].col
         /\ ext_result.mortgage_amounts[i].col =
              ext_result.mortgage_lenders[i].col

\* the external-resource step returned after clicking the anchor
MatrixStepReturned == mx_pc = "done" /\ mx_result.kind = "url"

\* the click made the list of window handles grow
HandlesGrew == Len(window_handles) > Len(handles_at_click)

\* C33: when the external-resource step returns, the focus was switched
\* exactly if the click added a window handle, and then it is on the added
\* handle; when none was added the focus is on the window of the anchor.
C33_FocusFollowsTheClick ==
  MatrixStepReturned =>
    /\ switched <=> HandlesGrew
    /\ IF HandlesGrew
       THEN mx_focus = NewTab /\ mx_result = Returned(NewTab)
       ELSE mx_focus = FirstWindow

\* C34: without a continue control the step clicks nothing and still
\* returns the current URL; with the control, the browser gets exactly one
\* click on it.
C34_ContinueClickedOnceIfPresent ==
  /\ continue_button # "found" => continue_clicks = 0
  /\ continue_button = "found" /\ mx_pc \in {"after", "return"} =>
       continue_clicks = 1
  /\ continue_clicks <= 1
  /\ MatrixStepReturned =>
       continue_clicks = (IF continue_button = "found" THEN 1 ELSE 0)

====
